---- MODULE Spec2Model ----
(***************************************************************************)
(* Model of the multi-chain transaction dispatch subsystem of              *)
(* external-wallet-backend: the nonce cache (getNextNonce /                *)
(* invalidateNonceCache), the account-model dispatcher                     *)
(* (sendEVMTransaction) and the retry queue (queueTransaction /            *)
(* processQueuedTransaction) of src/transactionManager.ts, the             *)
(* resource-model dispatcher (sendTronTransaction) of src/unnamed/part_002,*)
(* the UTXO dispatcher of src/utxoTransactionManager.ts, the balance and   *)
(* fee queries and the webhook handlers of src/webhooks.ts, driven by the  *)
(* routes of src/unnamed/part_002.                                         *)
(*                                                                         *)
(* The program is one Node.js process: code between two awaits runs        *)
(* atomically, every await is a suspension point.  Each action below is    *)
(* one such atomic segment of a handler.                                   *)
(***************************************************************************)
EXTENDS Integers, Sequences, FiniteSets, TLC

VARIABLES
    now,            \* Date.now(), in milliseconds
    nonceCache,     \* the Map nonceCache: cache key -> entry
    alloc,          \* direct getNextNonce calls in flight (allocator harness)
    afterInv,       \* history: key was invalidated and no call has started since
    transactionQueue, \* the Map transactionQueue: the ids it holds
    queuedTx,       \* the QueuedTransaction object created for each id
    nextQueueId,    \* the next fresh id (uuidv4) queueTransaction is given
    calls,          \* the /send and /queue/:id/retry requests in flight
    terminal,       \* history: how processQueuedTransaction last removed each id
    env,            \* process.env: NODE_ENV and the webhook signing keys
    transactionStatuses, \* the Map transactionStatuses: hash -> record
    statusOrder,    \* the insertion order of the keys of transactionStatuses
    request,        \* the webhook or status request handled last
    response,       \* the response to it, and the listener notifications it made
    replaced,       \* history: the record the last upsert overwrote
    handled,        \* the number of webhook and status requests handled so far
    queries         \* the /balance and /estimate-fee requests in flight

harnessVars == <<alloc, afterInv>>

dispatchVars == <<transactionQueue, queuedTx, nextQueueId, calls, terminal>>

webhookVars == <<env, transactionStatuses, statusOrder, request, response, replaced,
                 handled>>

queryVars == <<queries>>

vars == <<now, nonceCache, alloc, afterInv, transactionQueue, queuedTx, nextQueueId,
          calls, terminal, env, transactionStatuses, statusOrder, request, response,
          replaced, handled, queries>>

----------------------------------------------------------------------------
(* Bounds of the model *)

\* the clock advances at most this many ticks
MaxTicks == 2

\* provider.getTransactionCount(address, 'pending') answers 0..MaxPending
MaxPending == 2

\* no allocation starts once the cached next nonce of its key has reached this
MaxNonce == 3

\* at most this many transfers are queued in one behaviour
MaxQueued == 1

(* Program constants *)

NONCE_CACHE_TTL == 30000

\* one tick of the model clock: half the TTL, so that cache ages of
\* 0, TTL/2, TTL, 3*TTL/2 ... all occur (fresh, fresh, expired, expired)
TickMs == NONCE_CACHE_TTL \div 2

Max(a, b) == IF a >= b THEN a ELSE b
Min(a, b) == IF a <= b THEN a ELSE b

----------------------------------------------------------------------------
(* Chains and addresses *)

\* CHAIN_CONFIG[chain].chainId
ChainIdOf(chain) ==
    CASE chain = "ETHEREUM" -> 1
      [] chain = "BSC"      -> 56
      [] chain = "POLYGON"  -> 137

EVMChains == {"ETHEREUM", "BSC", "POLYGON"}

\* addresses as callers write them: one account in its mixed-case
\* (wallet.address) and its lower-case spelling
Addresses == {"0xAA", "0xaa"}

\* String.prototype.toLowerCase on the addresses of the model
ToLowerCase(s) ==
    CASE s = "0xAA" -> "0xaa"
      [] s = "0xBB" -> "0xbb"
      [] OTHER      -> s

\* MUTANT of CacheKey: the key does not tell the chains apart
CacheKey_AddressOnly(chainId, address) == <<ChainIdOf("ETHEREUM"), ToLowerCase(address)>>

\* `${chainId}-${address.toLowerCase()}`
CacheKey(chainId, address) == <<chainId, ToLowerCase(address)>>

\* the chain ids the allocator harness uses
HarnessChainIds == {ChainIdOf("ETHEREUM")}

\* every key the cache can hold in the model
CacheKeys == {ChainIdOf(c) : c \in EVMChains} \X {"0xaa", "0xbb", "unknown"}

\* what provider.getTransactionCount(address, 'pending') can answer
PendingCounts == 0..MaxPending

----------------------------------------------------------------------------
(* The nonce cache: getNextNonce, invalidateNonceCache *)

NoEntry == [present |-> FALSE, nonce |-> 0, timestamp |-> 0]

\* MUTANT of CachedIsFresh: the TTL test accepts an entry exactly TTL old
CachedIsFresh_Le(cached, t) ==
    cached.present /\ t - cached.timestamp <= NONCE_CACHE_TTL

\* `cached && now - cached.timestamp < NONCE_CACHE_TTL`
CachedIsFresh(cached, t) ==
    cached.present /\ t - cached.timestamp < NONCE_CACHE_TTL

\* MUTANT of NextNonce: the fresh branch trusts the cache alone
NextNonce_CacheOnly(cached, t, onChainNonce) ==
    IF CachedIsFresh(cached, t) THEN cached.nonce ELSE onChainNonce

\* the value getNextNonce returns, from the snapshot (cached, now) it took
\* before the provider fetch and the on-chain count the fetch returned
NextNonce(cached, t, onChainNonce) ==
    IF CachedIsFresh(cached, t)
    THEN Max(cached.nonce, onChainNonce)
    ELSE onChainNonce

\* MUTANT of NextEntry: the cache is not advanced past the returned nonce
NextEntry_NoAdvance(cached, t, onChainNonce) ==
    [present |-> TRUE, nonce |-> NextNonce(cached, t, onChainNonce), timestamp |-> t]

\* the entry getNextNonce stores: one past the returned nonce, stamped with
\* the `now` read at the start of the call
NextEntry(cached, t, onChainNonce) ==
    [present |-> TRUE, nonce |-> NextNonce(cached, t, onChainNonce) + 1, timestamp |-> t]

\* MUTANT of InvalidatedCache: the entry is kept
InvalidatedCache_Keep(cache, chainId, address) == cache

\* nonceCache.delete(`${chainId}-${address.toLowerCase()}`)
InvalidatedCache(cache, chainId, address) ==
    [cache EXCEPT ![CacheKey(chainId, address)] = NoEntry]

----------------------------------------------------------------------------
(* Fee arithmetic (estimateGas, and the fee level of sendEVMTransaction).    *)
(* Quantities are in wei.                                                    *)

\* wei per gwei: 10^9 in the program, scaled so that products stay small
WeiPerGwei == 1

\* wei per ether: 10^18 in the program, scaled likewise
WeiPerEther == 10

\* the gas limits estimateGas falls back to, line 167
DefaultGasLimitData == 100000

DefaultGasLimitTransfer == 21000

\* Math.floor(config.gasMultiplier * 100), lines 22, 33, 44 and 164
GasMultiplierPercent(chain) ==
    CASE chain = "ETHEREUM" -> 120
      [] chain = "BSC"      -> 110
      [] chain = "POLYGON"  -> 130

\* lines 161-168: the gas limit from the provider's estimate g; g = 0 stands
\* for a provider.estimateGas that rejects
GasLimitOf(chain, hasData, g) ==
    IF g = 0
    THEN (IF hasData THEN DefaultGasLimitData ELSE DefaultGasLimitTransfer)
    ELSE (g * GasMultiplierPercent(chain)) \div 100

\* (x * BigInt(120)) / BigInt(100), lines 175 and 179
BufferedFee(x) == (x * 120) \div 100

\* ethers.parseUnits('50', 'gwei') and ethers.parseUnits('2', 'gwei')
FallbackMaxFeePerGas == 50 * WeiPerGwei

FallbackMaxPriorityFeePerGas == 2 * WeiPerGwei

\* lines 174-180: a field of the fee data that is null or 0n is falsy
MaxFeePerGasOf(feeData) ==
    IF feeData.maxFeePerGas # 0 THEN BufferedFee(feeData.maxFeePerGas)
    ELSE FallbackMaxFeePerGas

MaxPriorityFeePerGasOf(feeData) ==
    IF feeData.maxPriorityFeePerGas # 0 THEN BufferedFee(feeData.maxPriorityFeePerGas)
    ELSE FallbackMaxPriorityFeePerGas

\* the fee data of the fee market; 0 stands for a field that is null
NoFeeData == [maxFeePerGas |-> 0, maxPriorityFeePerGas |-> 0]

FeeDatas == {NoFeeData, [maxFeePerGas |-> 6, maxPriorityFeePerGas |-> 3]}

\* the provider's gas estimates; 0 stands for a rejected estimate
GasEstimates == {0, 5}

\* the fee levels of a send request
FeeLevels == {"economy", "standard", "fast"}

\* the feeMultiplier of line 287
FeeMultiplier(feeLevel) ==
    CASE feeLevel = "fast"    -> 150
      [] feeLevel = "economy" -> 80
      [] OTHER                -> 100

\* (fee * BigInt(feeMultiplier)) / BigInt(100), lines 289-290
TieredFee(fee, feeLevel) == (fee * FeeMultiplier(feeLevel)) \div 100

\* the amounts that ethers.parseEther / parseUnits accept
Parses(amount) == amount \in {"1.5", "0"}

\* ethers.parseEther(amount)
ParseEther(amount) ==
    CASE amount = "1.5" -> (15 * WeiPerEther) \div 10
      [] amount = "0"   -> 0

\* ethers.parseUnits(amount, 6)
ParseUnits6(amount) ==
    CASE amount = "1.5" -> 1500000
      [] amount = "0"   -> 0

----------------------------------------------------------------------------
(* The dispatcher and the retry queue: data *)

\* the uuids queueTransaction is given, in the order they are drawn
QueueIds == 1..MaxQueued

\* the requests that can be in flight at once
Callers == {"r1", "r2"}

\* the chain the /send requests of the model name
DispatchChains == {"ETHEREUM"}

\* encryptedPrivateKey values: the key of wallet 0xAA, and one that decrypts
\* to fewer than 64 characters
EncryptedKeys == {"encA", "encShort"}

\* decrypt(encryptedPrivateKey).length >= 64
KeyPlausible(key) == key \in {"encA", "encB"}

\* new ethers.Wallet(privateKey, provider).address
WalletAddress(key) == CASE key = "encA" -> "0xAA" [] key = "encB" -> "0xBB" [] OTHER -> ""

\* the amounts requests carry
Amounts == {"1.5", "0"}

\* !(isNaN(parseFloat(amount)) || parseFloat(amount) <= 0)
AmountValid(amount) == amount = "1.5"

\* the symbols requests carry: the native currency and an ERC20 token
Symbols == {"ETH", "USDT"}

\* !!ERC20_TOKENS[chain]?.[symbol]
IsToken(chain, symbol) == symbol \in {"USDT", "USDC"}

\* the messages of the errors a provider call rejects with in the model
ProviderErrors == {"nonce too low", "timeout", "insufficient funds"}

\* the substrings the catch block looks for that a message contains
Keywords(message) ==
    CASE message = "nonce too low"                        -> {"nonce"}
      [] message = "replacement transaction underpriced"  -> {"replacement"}
      [] message = "timeout"                              -> {"timeout"}
      [] message = "network error"                        -> {"network"}
      [] message = "connect ETIMEDOUT"                    -> {"ETIMEDOUT"}
      [] message = "rate limit exceeded"                  -> {"rate limit"}
      [] message = "insufficient funds"                   -> {"insufficient"}
      [] message = "invalid address"                      -> {"invalid"}
      [] OTHER                                            -> {}

\* message.includes(keyword)
Includes(message, keyword) == keyword \in Keywords(message)

\* MUTANT of IsRetryable: nothing is retryable
IsRetryable_Never(message) == FALSE

\* the catch block's classification, lines 327-332
IsRetryable(message) ==
    \/ Includes(message, "nonce")
    \/ Includes(message, "replacement")
    \/ Includes(message, "timeout")
    \/ Includes(message, "network")
    \/ Includes(message, "ETIMEDOUT")
    \/ Includes(message, "rate limit")

\* the address the catch block passes to invalidateNonceCache, line 336
InvalidatedAddress(from) == "unknown"

\* number of RPC endpoints of a chain, CHAIN_CONFIG[chain].rpc.length
RpcCount(chain) == 3

\* getProvider, line 102: the loop starts at the first configured endpoint
FirstEndpoint == 1

\* MUTANT of NextEndpoint: a failed endpoint is probed again
NextEndpoint_Same(rpc) == rpc

\* getProvider, line 102: after endpoint rpc failed its probe the loop goes
\* on to the endpoint configured after it
NextEndpoint(rpc) == rpc + 1

\* queueTransaction's default maxRetries, line 357
DefaultMaxRetries == 3

\* a SendResult
NoResult == [success |-> FALSE, retryable |-> FALSE, error |-> "", queueId |-> 0,
             retryNote |-> <<>>]

Success == [NoResult EXCEPT !.success = TRUE]

Failure(message, retryable) ==
    [NoResult EXCEPT !.error = message, !.retryable = retryable]

\* a QueuedTransaction; requested is history: the feeLevel of the request
\* that queued it
NoQueuedTx ==
    [created |-> FALSE, chain |-> "", encryptedPrivateKey |-> "", amount |-> "",
     symbol |-> "", retryCount |-> 0, maxRetries |-> 0, lastError |-> "",
     nextRetryAt |-> 0, requested |-> ""]

\* no balance has been answered
NoBalance == 0 - 1

\* the locals of one request: of the route, of processQueuedTransaction and
\* of the sendEVMTransaction and getNextNonce calls below it
\* value, gasLimit, maxFeePerGas and maxPriorityFeePerGas are the fields of
\* tx.  History: requested is the fee level the caller chose, feeData the fee
\* data the provider answered, balance the balance last answered, stages
\* the provider stages a UTXO send has run, each with its outcome.
IdleCall ==
    [pc |-> "idle", kind |-> "", id |-> 0, chain |-> "", key |-> "", amount |-> "",
     symbol |-> "", rpc |-> 0, from |-> "",
     cached |-> NoEntry, now |-> 0, result |-> NoResult,
     feeLevel |-> "", requested |-> "", value |-> 0, gasLimit |-> 0,
     maxFeePerGas |-> 0, maxPriorityFeePerGas |-> 0, feeData |-> NoFeeData,
     balance |-> NoBalance, stages |-> <<>>]

----------------------------------------------------------------------------
(* Webhook ingestion and status queries (src/webhooks.ts): data.  The        *)
(* handlers contain no await: each request is handled in one step.  Bodies   *)
(* are well-formed (the objects a handler destructures are there), except    *)
(* that an activity list may hold null in place of a transfer.               *)

\* process.env as the handlers read it: NODE_ENV === 'production', and
\* whether the provider signing keys are set (the keys are read in
\* production only)
Envs == {e \in [production : BOOLEAN, signingKey : BOOLEAN] : e.signingKey => e.production}

\* a process started without NODE_ENV and without signing keys
DevelopmentEnv == [production |-> FALSE, signingKey |-> FALSE]

\* the transaction hashes notifications and lookups refer to
Hashes == {"0xh1", "0xh2"}

\* the four provider endpoints
Endpoints == {"alchemy", "cryptoapis", "quidax", "trongrid"}

\* at most this many webhook and status requests are handled in one behaviour
MaxRequests == 3

\* an Alchemy ADDRESS_ACTIVITY body lists at most this many transfers
MaxActivity == 2

\* GET /statuses returns at most this many records: results.slice(0, 100),
\* scaled to the number of hashes of the model
ListCap == 1

\* the value of a field the handler leaves out or reads from a missing
\* property
Undefined == "undefined"

\* the activity lists of ADDRESS_ACTIVITY bodies: transfers with the hashes
\* 0xh1, 0xh2, 0xh1, ..., all with blockNum set or all without
Activities ==
    {[i \in 1..n |-> [hash |-> IF i % 2 = 1 THEN "0xh1" ELSE "0xh2", mined |-> m]] :
        n \in 0..MaxActivity, m \in BOOLEAN}

\* an activity list of a batch holds at most this many elements
MaxBatch == 3

\* a null element of an activity list: JSON null where a transfer object is
\* expected
NullTx == [hash |-> "null", mined |-> FALSE]

\* the activity lists of the batches: unmined transfers 0xh1 and 0xh2 and
\* null elements, in any order
Batches ==
    UNION {[1..n -> {[hash |-> "0xh1", mined |-> FALSE], [hash |-> "0xh2", mined |-> FALSE],
                     NullTx}] : n \in 1..MaxBatch}

\* the event types the bodies carry; "other" is a type the handler's switch
\* does not name
AlchemyTypes == {"ADDRESS_ACTIVITY", "MINED_TRANSACTION", "DROPPED_TRANSACTION", "other"}

CryptoApisEvents ==
    {"CONFIRMED_TX", "UNCONFIRMED_TX", "ADDRESS_COINS_TRANSACTION_CONFIRMED",
     "ADDRESS_TOKENS_TRANSACTION_CONFIRMED", "other"}

QuidaxEvents ==
    {"deposit.successful", "withdraw.successful", "withdraw.failed",
     "trade.successful", "other"}

\* transaction.ret[0].contractRet of a TronGrid body; "none" is a body
\* without a transaction
TronReturns == {"SUCCESS", "REVERT", "none"}

\* the timestamp a body carries, in milliseconds; 0 is a body without one
\* (CryptoAPIs bodies always carry item.timestamp)
PayloadTimes == {0, 7000}

\* item.confirmations / data.confirmations of a body; 0 is a body without it
PayloadConfirmations == {0, 3}

\* request bodies: one shape for all endpoints, the fields an endpoint does
\* not read at their first value
Body(endpoint, event, hash, activity, ts, confirmations) ==
    [endpoint |-> endpoint, event |-> event, hash |-> hash, activity |-> activity,
     ts |-> ts, confirmations |-> confirmations]

\* Alchemy and TronGrid report the account-model transfer 0xh1 (an activity
\* list names 0xh2 as well), CryptoAPIs and Quidax the transfer 0xh2
AlchemyBodies ==
    {Body("alchemy", "ADDRESS_ACTIVITY", "0xh1", a, 0, 0) : a \in Activities}
    \cup {Body("alchemy", t, "0xh1", <<>>, 0, 0) : t \in AlchemyTypes \ {"ADDRESS_ACTIVITY"}}

\* ADDRESS_ACTIVITY bodies carrying a batch
BatchBodies == {Body("alchemy", "ADDRESS_ACTIVITY", "0xh1", a, 0, 0) : a \in Batches}

CryptoApisBodies ==
    {Body("cryptoapis", e, "0xh2", <<>>, 7000, 0) : e \in CryptoApisEvents}
    \cup {Body("cryptoapis", "CONFIRMED_TX", "0xh2", <<>>, 7000, c) : c \in PayloadConfirmations}

QuidaxBodies ==
    {Body("quidax", e, "0xh2", <<>>, 0, 0) : e \in QuidaxEvents}
    \cup {Body("quidax", "deposit.successful", "0xh2", <<>>, t, c) :
             t \in PayloadTimes, c \in PayloadConfirmations}

TronGridBodies ==
    {Body("trongrid", r, "0xh1", <<>>, 0, 0) : r \in TronReturns}
    \cup {Body("trongrid", "SUCCESS", "0xh1", <<>>, t, 0) : t \in PayloadTimes}

\* the signature header of a request: none, a string of another length than
\* the hex digest, a wrong digest, the digest of the body
Signatures == {"missing", "short", "wrong", "valid"}

\* the signatures the model sends: where the handler never reads the header
\* (no check, or the check is skipped) only requests without one; to the
\* endpoints that compare with ===, no digest of another length
SignaturesSent(endpoint, e) ==
    IF endpoint = "trongrid" \/ ~e.production \/ ~e.signingKey THEN {"missing"}
    ELSE IF endpoint = "alchemy" THEN Signatures
    ELSE Signatures \ {"short"}

\* a TransactionStatus; present = FALSE stands for no record
NoRecord ==
    [present |-> FALSE, txHash |-> "", status |-> "", confirmations |-> 0, chain |-> "",
     timestamp |-> 0, fromAddress |-> Undefined, toAddress |-> Undefined,
     amount |-> Undefined, blockNumber |-> Undefined, blockHash |-> Undefined]

Record(txHash, status, confirmations, chain, timestamp) ==
    [NoRecord EXCEPT !.present = TRUE, !.txHash = txHash, !.status = status,
                     !.confirmations = confirmations, !.chain = chain,
                     !.timestamp = timestamp]

\* x || d on numbers
OrElse(x, d) == IF x = 0 THEN d ELSE x

\* what a request is answered with, and how often notifyListeners ran
NoResponse == [code |-> 0, success |-> FALSE, data |-> <<>>, notified |-> 0]

NoRequest ==
    [kind |-> "none", body |-> Body("", "", "", <<>>, 0, 0), signature |-> "",
     txHash |-> "", chain |-> "", status |-> ""]

----------------------------------------------------------------------------
(* Balance and fee queries (POST /balance, POST /estimate-fee): data         *)

\* the requests that can be in flight at once
Queriers == {"q1", "q2"}

\* the chains the queries of the model name
QueryChains == {"ETHEREUM", "BITCOIN", "TRON"}

\* getChainType, part_002 lines 22-31
GetChainType(chain) ==
    CASE chain \in {"ETHEREUM", "BSC", "POLYGON"}      -> "evm"
      [] chain = "TRON"                                -> "tron"
      [] chain \in {"BITCOIN", "LITECOIN", "DOGECOIN"} -> "utxo"

\* the native currency of a chain and a token
QuerySymbols(chain) ==
    CASE chain = "ETHEREUM" -> {"ETH", "USDT"}
      [] chain = "TRON"     -> {"TRX", "USDT"}
      [] chain = "BITCOIN"  -> {"BTC"}

\* the balances a provider answers with, in wei
BalancesAnswered == {0, 7}

\* the free bandwidth TronGrid answers with; a TRX transfer needs 265
Bandwidths == {0, 300}

\* the body of the answer to a query
NoAnswer ==
    [success |-> FALSE, balance |-> 0, estimatedCost |-> 0, gasLimit |-> 0,
     estimatedFee |-> "", error |-> ""]

\* what a balance or fee function returns to its route: the balance (in the
\* smallest unit; '0' where the function gives up) and the error
NoReturn == [balance |-> 0, error |-> ""]

\* the locals of one query: of the route, of the balance or fee function and
\* of getProvider; probes is the history of the liveness probes of the
\* call, returned what the function returned to the route
IdleQuery ==
    [pc |-> "idle", kind |-> "", chain |-> "", symbol |-> "", amount |-> "",
     rpc |-> 0, probes |-> <<>>, provider |-> 0, gasLimit |-> 0,
     returned |-> NoReturn, answer |-> NoAnswer]

----------------------------------------------------------------------------
(* Allocator harness: getNextNonce and invalidateNonceCache called directly  *)
(* by concurrent callers.                                                    *)

Allocators == {"n1", "n2"}

IdleAlloc ==
    [pc |-> "idle", cacheKey |-> <<0, "">>, cached |-> NoEntry, now |-> 0,
     onChainNonce |-> 0, result |-> 0,
     \* history of the call, for the properties:
     began |-> 0,                \* the time the call began
     overlapped |-> {},          \* callers whose call on the same key was in flight during this one
     after |-> {},               \* the caller whose call on the same key was the last to return
                                 \* before this one began (no invalidation in between)
     latest |-> FALSE,           \* no call on the key has returned, and no invalidation
                                 \* has run, since this call returned
     invalidated |-> FALSE,      \* the key was invalidated while this call was in flight
     firstAfterInv |-> FALSE]    \* the first call on its key begun after an invalidation

AllocKey(p) == alloc[p].cacheKey

InFlightOn(key) == {q \in Allocators : alloc[q].pc = "fetch" /\ AllocKey(q) = key}

ReturnedOn(key) == {q \in Allocators : alloc[q].pc = "done" /\ AllocKey(q) = key}

\* the process after start-up in environment e: empty maps, no request in
\* flight
Start(e) ==
    /\ env = e
    /\ transactionStatuses = [h \in Hashes |-> NoRecord]
    /\ statusOrder = <<>>
    /\ request = NoRequest
    /\ response = NoResponse
    /\ replaced = NoRecord
    /\ handled = 0
    /\ now = 0
    /\ nonceCache = [k \in CacheKeys |-> NoEntry]
    /\ alloc = [p \in Allocators |-> IdleAlloc]
    /\ afterInv = [k \in CacheKeys |-> FALSE]
    /\ transactionQueue = {}
    /\ queuedTx = [i \in QueueIds |-> NoQueuedTx]
    /\ nextQueueId = 1
    /\ calls = [p \in Callers |-> IdleCall]
    /\ terminal = [i \in QueueIds |-> "none"]
    /\ queries = [q \in Queriers |-> IdleQuery]

Init == Start(DevelopmentEnv)

\* getNextNonce, lines 119-124: build the key, read the cache and the clock,
\* then suspend at provider.getTransactionCount.  A caller whose earlier call
\* has returned may call again.
AllocBegin(p, chainId, address) ==
    /\ alloc[p].pc \in {"idle", "done"}
    /\ nonceCache[CacheKey(chainId, address)].nonce < MaxNonce
    /\ LET key == CacheKey(chainId, address)
           others == InFlightOn(key)
       IN /\ alloc' = [q \in Allocators |->
                 IF q = p
                 THEN [IdleAlloc EXCEPT
                         !.pc = "fetch", !.cacheKey = key,
                         !.cached = nonceCache[key], !.now = now,
                         !.began = now,
                         !.overlapped = others,
                         !.after = {r \in ReturnedOn(key) \ {p} : alloc[r].latest},
                         !.firstAfterInv = afterInv[key]]
                 ELSE IF q \in others
                 THEN [alloc[q] EXCEPT !.overlapped = @ \cup {p}, !.after = @ \ {p}]
                 ELSE [alloc[q] EXCEPT !.after = @ \ {p}]]
          /\ afterInv' = [afterInv EXCEPT ![key] = FALSE]
    /\ UNCHANGED <<now, nonceCache>>
    /\ UNCHANGED dispatchVars
    /\ UNCHANGED webhookVars
    /\ UNCHANGED queryVars

\* getNextNonce, lines 124-135: the fetch returns a, the cache is written and
\* the nonce returned
AllocResume(p, a) ==
    /\ alloc[p].pc = "fetch"
    /\ LET key == AllocKey(p)
           c   == alloc[p].cached
           t   == alloc[p].now
       IN /\ nonceCache' = [nonceCache EXCEPT ![key] = NextEntry(c, t, a)]
          \* the locals cached and now are dead once the call has returned
          /\ alloc' = [q \in Allocators |->
                 IF q = p
                 THEN [alloc[p] EXCEPT !.pc = "done", !.onChainNonce = a,
                                       !.result = NextNonce(c, t, a),
                                       !.cached = NoEntry, !.now = 0,
                                       !.latest = TRUE]
                 ELSE IF q \in ReturnedOn(key)
                 THEN [alloc[q] EXCEPT !.latest = FALSE]
                 ELSE alloc[q]]
    /\ UNCHANGED <<now, afterInv>>
    /\ UNCHANGED dispatchVars
    /\ UNCHANGED webhookVars
    /\ UNCHANGED queryVars

\* invalidateNonceCache(chainId, address)
Invalidate(chainId, address) ==
    /\ LET key == CacheKey(chainId, address)
       IN /\ nonceCache' = InvalidatedCache(nonceCache, chainId, address)
          /\ afterInv' = [afterInv EXCEPT ![key] = TRUE]
          /\ alloc' = [q \in Allocators |->
                          IF q \in InFlightOn(key)
                          THEN [alloc[q] EXCEPT !.invalidated = TRUE]
                          ELSE IF q \in ReturnedOn(key)
                          THEN [alloc[q] EXCEPT !.latest = FALSE]
                          ELSE alloc[q]]
    /\ UNCHANGED <<now>>
    /\ UNCHANGED dispatchVars
    /\ UNCHANGED webhookVars
    /\ UNCHANGED queryVars

\* time passes
Tick ==
    /\ now < MaxTicks * TickMs
    /\ now' = now + TickMs
    /\ UNCHANGED <<nonceCache, alloc, afterInv>>
    /\ UNCHANGED dispatchVars
    /\ UNCHANGED webhookVars
    /\ UNCHANGED queryVars

NonceNext ==
    \/ \E p \in Allocators, c \in HarnessChainIds, a \in Addresses : AllocBegin(p, c, a)
    \/ \E p \in Allocators, a \in PendingCounts : AllocResume(p, a)
    \/ \E c \in HarnessChainIds, a \in Addresses : Invalidate(c, a)
    \/ Tick

NonceSpec == Init /\ [][NonceNext]_vars

----------------------------------------------------------------------------
(* The dispatcher and the retry queue: operations.  Provider answers are    *)
(* inputs: every await below can be answered with any value of the model or *)
(* rejected with any message of ProviderErrors.                             *)

\* a request takes the first free slot: r2 serves a request only while r1
\* is busy with another one
SlotFree(p) ==
    /\ calls[p].pc \in {"idle", "done"}
    /\ p = "r2" => calls["r1"].pc \notin {"idle", "done"}

\* the cache key getNextNonce builds for the sender of call c
SenderKey(c) == CacheKey(ChainIdOf(c.chain), c.from)

\* sendEVMTransaction returns r: to the route (kind "send"), or to
\* processQueuedTransaction, which continues at line 392 (kind "process")
Returned(c, r) ==
    [IdleCall EXCEPT !.pc = IF c.kind = "process" THEN "sent" ELSE "done",
                     !.kind = c.kind, !.id = c.id, !.result = r]

\* sendEVMTransaction, lines 211-224: up to the first liveness probe
EnterSend(c) ==
    IF c.chain \notin EVMChains
    THEN Returned(c, Failure("Unsupported chain", FALSE))
    ELSE IF ~KeyPlausible(c.key)
    THEN Returned(c, Failure("Invalid or corrupted private key", FALSE))
    ELSE [c EXCEPT !.pc = "probe", !.rpc = FirstEndpoint]

\* getNextNonce, lines 119-124, called at line 280
EnterNonce(c) ==
    [c EXCEPT !.pc = "txcount", !.cached = nonceCache[SenderKey(c)], !.now = now]

\* the catch block, lines 321-344: the result
Caught(message) == Failure(message, IsRetryable(message))

\* the catch block, lines 334-337: the cache
CacheAfterCatch(cache, chain, from, message) ==
    IF Includes(message, "nonce")
    THEN InvalidatedCache(cache, ChainIdOf(chain), InvalidatedAddress(from))
    ELSE cache

\* sendEVMTransaction, sendTronTransaction or sendUTXOTransaction threw
\* instead of returning
Threw(c) == [IdleCall EXCEPT !.pc = "threw", !.kind = c.kind, !.id = c.id]

\* MUTANT of Escapes: the submission is awaited outside the try block
Escapes_Submission(c) == c.pc \in {"broadcast", "sendraw", "utxobroadcast"}

\* the rejection of the call awaited at c.pc is not caught by the
\* dispatcher: every await of sendEVMTransaction (lines 216-320), of
\* sendTronTransaction (part_002 371-471) and of sendUTXOTransaction
\* (utxoTransactionManager.ts 69-136) is inside the function's try block,
\* and the catch blocks call nothing that throws
Escapes(c) == FALSE

\* an error with this message is thrown under call p, at the await of c.pc
Thrown(p, message) ==
    /\ calls' = [calls EXCEPT ![p] =
          IF Escapes(calls[p]) THEN Threw(calls[p])
          ELSE Returned(calls[p], Caught(message))]
    /\ nonceCache' = CacheAfterCatch(nonceCache, calls[p].chain, calls[p].from, message)
    /\ UNCHANGED <<now, transactionQueue, queuedTx, nextQueueId, terminal>>
    /\ UNCHANGED harnessVars
    /\ UNCHANGED webhookVars
    /\ UNCHANGED queryVars

\* the cached next nonce of the sender is still below the model's cap
NonceBelowCap(chain, key) ==
    KeyPlausible(key) =>
        nonceCache[CacheKey(ChainIdOf(chain), WalletAddress(key))].nonce < MaxNonce

\* POST /send with useQueue = false on an account-model chain (part_002 88-95)
SendDirect(p, chain, key, symbol, amount, feeLevel) ==
    /\ SlotFree(p)
    /\ NonceBelowCap(chain, key)
    /\ calls' = [calls EXCEPT ![p] =
          EnterSend([IdleCall EXCEPT !.kind = "send", !.chain = chain, !.key = key,
                                     !.symbol = symbol, !.amount = amount,
                                     !.feeLevel = feeLevel, !.requested = feeLevel])]
    /\ UNCHANGED <<now, nonceCache, transactionQueue, queuedTx, nextQueueId, terminal>>
    /\ UNCHANGED harnessVars
    /\ UNCHANGED webhookVars
    /\ UNCHANGED queryVars

\* the feeLevel of the call at lines 384-390: none is passed, the parameter
\* takes its default (line 209)
QueuedFeeLevel(q) == "standard"

\* the call processQueuedTransaction makes at lines 384-390
ProcessCall(id, q) ==
    EnterSend([IdleCall EXCEPT !.kind = "process", !.id = id, !.chain = q.chain,
                               !.key = q.encryptedPrivateKey, !.symbol = q.symbol,
                               !.amount = q.amount, !.feeLevel = QueuedFeeLevel(q),
                               !.requested = q.requested])

\* POST /send with useQueue = true (part_002 76-86): queueTransaction with a
\* fresh uuid, then processQueuedTransaction up to its await
SendQueued(p, chain, key, symbol, amount, feeLevel) ==
    /\ SlotFree(p)
    /\ NonceBelowCap(chain, key)
    /\ nextQueueId <= MaxQueued
    /\ LET id == nextQueueId
           q  == [created |-> TRUE, chain |-> chain, encryptedPrivateKey |-> key,
                  amount |-> amount, symbol |-> symbol, retryCount |-> 0,
                  maxRetries |-> DefaultMaxRetries, lastError |-> "",
                  nextRetryAt |-> 0, requested |-> feeLevel]
       IN /\ queuedTx' = [queuedTx EXCEPT ![id] = q]
          /\ transactionQueue' = transactionQueue \cup {id}
          /\ nextQueueId' = id + 1
          /\ calls' = [calls EXCEPT ![p] = ProcessCall(id, q)]
    /\ UNCHANGED <<now, nonceCache, terminal>>
    /\ UNCHANGED harnessVars
    /\ UNCHANGED webhookVars
    /\ UNCHANGED queryVars

\* MUTANT of NotFound: a missing entry is reported as a retryable failure
NotFound_Retryable == Failure("Transaction not found in queue", TRUE)

\* processQueuedTransaction, lines 380-382: the id is not in the queue
NotFound == Failure("Transaction not found in queue", FALSE)

\* MUTANT of Retry: an entry whose nextRetryAt has not come is not dispatched
Retry_HonoursBackoff(p, id) ==
    /\ SlotFree(p)
    /\ IF id \notin transactionQueue
       THEN calls' = [calls EXCEPT ![p] =
                [IdleCall EXCEPT !.pc = "done", !.kind = "process", !.id = id,
                     !.result = NotFound]]
       ELSE IF now < queuedTx[id].nextRetryAt
       THEN calls' = [calls EXCEPT ![p] =
                [IdleCall EXCEPT !.pc = "done", !.kind = "process", !.id = id,
                     !.result = Failure("Retry not due", TRUE)]]
       ELSE /\ NonceBelowCap(queuedTx[id].chain, queuedTx[id].encryptedPrivateKey)
            /\ calls' = [calls EXCEPT ![p] = ProcessCall(id, queuedTx[id])]
    /\ UNCHANGED <<now, nonceCache, transactionQueue, queuedTx, nextQueueId, terminal>>
    /\ UNCHANGED harnessVars
    /\ UNCHANGED webhookVars
    /\ UNCHANGED queryVars

\* POST /queue/:id/retry (part_002 271-279): processQueuedTransaction,
\* lines 378-390
Retry(p, id) ==
    /\ SlotFree(p)
    /\ IF id \notin transactionQueue
       THEN calls' = [calls EXCEPT ![p] =
                [IdleCall EXCEPT !.pc = "done", !.kind = "process", !.id = id,
                     !.result = NotFound]]
       ELSE /\ NonceBelowCap(queuedTx[id].chain, queuedTx[id].encryptedPrivateKey)
            /\ calls' = [calls EXCEPT ![p] = ProcessCall(id, queuedTx[id])]
    /\ UNCHANGED <<now, nonceCache, transactionQueue, queuedTx, nextQueueId, terminal>>
    /\ UNCHANGED harnessVars
    /\ UNCHANGED webhookVars
    /\ UNCHANGED queryVars

\* getProvider, lines 102-113: endpoint calls[p].rpc answers the probe or
\* fails it; then sendEVMTransaction, lines 225-263, up to the balance lookup
ProbeAnswer(p, ok) ==
    /\ calls[p].pc = "probe"
    /\ LET c == calls[p]
           w == [c EXCEPT !.from = WalletAddress(c.key), !.rpc = 0, !.amount = "",
                          !.key = "",
                          !.value = IF ~AmountValid(c.amount) THEN 0
                                    ELSE IF IsToken(c.chain, c.symbol)
                                    THEN ParseUnits6(c.amount)
                                    ELSE ParseEther(c.amount)]
       IN IF ok
          THEN /\ calls' = [calls EXCEPT ![p] =
                     IF ~AmountValid(c.amount)
                     THEN Returned(w, Failure("Invalid amount", FALSE))
                     ELSE [w EXCEPT !.pc = "balance"]]
               /\ UNCHANGED <<now, nonceCache, transactionQueue, queuedTx,
                              nextQueueId, terminal>>
               /\ UNCHANGED harnessVars
               /\ UNCHANGED webhookVars
               /\ UNCHANGED queryVars
          ELSE IF c.rpc < RpcCount(c.chain)
          THEN /\ calls' = [calls EXCEPT ![p].rpc = NextEndpoint(c.rpc)]
               /\ UNCHANGED <<now, nonceCache, transactionQueue, queuedTx,
                              nextQueueId, terminal>>
               /\ UNCHANGED harnessVars
               /\ UNCHANGED webhookVars
               /\ UNCHANGED queryVars
          ELSE Thrown(p, "All RPC endpoints failed")

\* a returned call keeps, as history, the balance that made it fail
Rejected(c, balance, message) ==
    [Returned(c, Failure(message, FALSE)) EXCEPT !.balance = balance, !.value = c.value,
                                                 !.symbol = c.symbol]

\* lines 247-256 (token) and 263-277 (native): the balance is answered
BalanceAnswer(p, balance) ==
    /\ calls[p].pc = "balance"
    /\ LET c == [calls[p] EXCEPT !.balance = balance]
       IN calls' = [calls EXCEPT ![p] =
             IF balance < c.value THEN Rejected(c, balance, "Insufficient balance")
             ELSE IF IsToken(c.chain, c.symbol) THEN [c EXCEPT !.pc = "populate"]
             ELSE EnterNonce(c)]
    /\ UNCHANGED <<now, nonceCache, transactionQueue, queuedTx, nextQueueId, terminal>>
    /\ UNCHANGED harnessVars
    /\ UNCHANGED webhookVars
    /\ UNCHANGED queryVars

\* lines 256-280: transfer.populateTransaction is answered
PopulateAnswer(p) ==
    /\ calls[p].pc = "populate"
    /\ calls' = [calls EXCEPT ![p] = EnterNonce(calls[p])]
    /\ UNCHANGED <<now, nonceCache, transactionQueue, queuedTx, nextQueueId, terminal>>
    /\ UNCHANGED harnessVars
    /\ UNCHANGED webhookVars
    /\ UNCHANGED queryVars

\* getNextNonce, lines 124-135: the pending count is answered; then lines
\* 281-284 and estimateGas up to provider.estimateGas
TxCountAnswer(p, a) ==
    /\ calls[p].pc = "txcount"
    /\ LET c == calls[p]
       IN /\ nonceCache' = [nonceCache EXCEPT ![SenderKey(c)] = NextEntry(c.cached, c.now, a)]
          /\ calls' = [calls EXCEPT ![p] =
                [c EXCEPT !.pc = "estgas", !.cached = NoEntry, !.now = 0]]
    /\ UNCHANGED <<now, transactionQueue, queuedTx, nextQueueId, terminal>>
    /\ UNCHANGED harnessVars
    /\ UNCHANGED webhookVars
    /\ UNCHANGED queryVars

\* estimateGas, lines 161-171: the estimate is answered, or fails (g = 0; a
\* failure is caught there and replaced by the default limit)
EstimateGasAnswer(p, g) ==
    /\ calls[p].pc = "estgas"
    /\ LET c == calls[p]
       IN calls' = [calls EXCEPT ![p] =
             [c EXCEPT !.pc = "feedata",
                       !.gasLimit = GasLimitOf(c.chain, IsToken(c.chain, c.symbol), g)]]
    /\ UNCHANGED <<now, nonceCache, transactionQueue, queuedTx, nextQueueId, terminal>>
    /\ UNCHANGED harnessVars
    /\ UNCHANGED webhookVars
    /\ UNCHANGED queryVars

\* estimateGas, lines 171-189, and lines 286-297: the fee data is answered
FeeDataAnswer(p, feeData) ==
    /\ calls[p].pc = "feedata"
    /\ LET c == calls[p]
       IN calls' = [calls EXCEPT ![p] =
             [c EXCEPT !.pc = IF IsToken(c.chain, c.symbol) THEN "sign" ELSE "balance2",
                       !.feeData = feeData,
                       !.maxFeePerGas = TieredFee(MaxFeePerGasOf(feeData), c.feeLevel),
                       !.maxPriorityFeePerGas =
                           TieredFee(MaxPriorityFeePerGasOf(feeData), c.feeLevel)]]
    /\ UNCHANGED <<now, nonceCache, transactionQueue, queuedTx, nextQueueId, terminal>>
    /\ UNCHANGED harnessVars
    /\ UNCHANGED webhookVars
    /\ UNCHANGED queryVars

\* MUTANT of TotalCost: the gas is left out
TotalCost_NoGas(c) == c.value

\* line 296
TotalCost(c) == c.value + c.gasLimit * c.maxFeePerGas

\* lines 297-310: the balance for amount + gas is answered
Balance2Answer(p, balance) ==
    /\ calls[p].pc = "balance2"
    /\ LET c == [calls[p] EXCEPT !.balance = balance]
       IN calls' = [calls EXCEPT ![p] =
             IF balance < TotalCost(c)
             THEN Rejected(c, balance, "Insufficient balance for amount + gas")
             ELSE [c EXCEPT !.pc = "sign"]]
    /\ UNCHANGED <<now, nonceCache, transactionQueue, queuedTx, nextQueueId, terminal>>
    /\ UNCHANGED harnessVars
    /\ UNCHANGED webhookVars
    /\ UNCHANGED queryVars

\* lines 310-311: the transaction is signed
SignAnswer(p) ==
    /\ calls[p].pc = "sign"
    /\ calls' = [calls EXCEPT ![p].pc = "broadcast"]
    /\ UNCHANGED <<now, nonceCache, transactionQueue, queuedTx, nextQueueId, terminal>>
    /\ UNCHANGED harnessVars
    /\ UNCHANGED webhookVars
    /\ UNCHANGED queryVars

\* lines 311-319: the provider accepts the transaction
BroadcastAnswer(p) ==
    /\ calls[p].pc = "broadcast"
    /\ calls' = [calls EXCEPT ![p] = Returned(calls[p], Success)]
    /\ UNCHANGED <<now, nonceCache, transactionQueue, queuedTx, nextQueueId, terminal>>
    /\ UNCHANGED harnessVars
    /\ UNCHANGED webhookVars
    /\ UNCHANGED queryVars

\* an awaited provider call inside the try block rejects
ProviderThrows(p, message) ==
    /\ calls[p].pc \in {"balance", "populate", "txcount", "feedata", "balance2",
                        "sign", "broadcast"}
    /\ Thrown(p, message)

\* MUTANT of BackoffMs: the delay is computed from the count before the increment
BackoffMs_Stale(retryCount) == (2 ^ (retryCount - 1)) * 1000

\* Math.pow(2, queuedTx.retryCount) * 1000, line 400
BackoffMs(retryCount) == (2 ^ retryCount) * 1000

\* MUTANT of MayRetry: one retry more than maxRetries is scheduled
MayRetry_OneMore(r, q) == r.retryable /\ q.retryCount <= q.maxRetries

\* line 397
MayRetry(r, q) == r.retryable /\ q.retryCount < q.maxRetries

\* processQueuedTransaction, lines 392-411: sendEVMTransaction has returned
ProcessFinish(p) ==
    /\ calls[p].pc = "sent"
    /\ LET c  == calls[p]
           r  == c.result
           id == c.id
           q  == queuedTx[id]
       IN IF r.success
          THEN /\ transactionQueue' = transactionQueue \ {id}
               /\ terminal' = [terminal EXCEPT ![id] = "succeeded"]
               /\ calls' = [calls EXCEPT ![p].pc = "done"]
               /\ UNCHANGED queuedTx
          ELSE IF MayRetry(r, q)
          THEN /\ queuedTx' = [queuedTx EXCEPT ![id] =
                     [q EXCEPT !.retryCount = q.retryCount + 1,
                               !.lastError = r.error,
                               !.nextRetryAt = now + BackoffMs(q.retryCount + 1)]]
               /\ transactionQueue' = transactionQueue \cup {id}
               /\ calls' = [calls EXCEPT ![p].pc = "done",
                                         ![p].result.queueId = id,
                                         ![p].result.retryNote =
                                             <<q.retryCount + 1, q.maxRetries>>]
               /\ UNCHANGED terminal
          ELSE /\ transactionQueue' = transactionQueue \ {id}
               /\ terminal' = [terminal EXCEPT ![id] = "failed"]
               /\ calls' = [calls EXCEPT ![p].pc = "done"]
               /\ UNCHANGED queuedTx
    /\ UNCHANGED <<now, nonceCache, nextQueueId>>
    /\ UNCHANGED harnessVars
    /\ UNCHANGED webhookVars
    /\ UNCHANGED queryVars

\* MUTANT of GetQueueStats: every entry is counted as pending
GetQueueStats_AllPending ==
    [pending  |-> Cardinality(transactionQueue),
     retrying |-> Cardinality({id \in transactionQueue : queuedTx[id].retryCount > 0})]

\* getQueueStats, lines 418-428
GetQueueStats ==
    [pending  |-> Cardinality({id \in transactionQueue : ~(queuedTx[id].retryCount > 0)}),
     retrying |-> Cardinality({id \in transactionQueue : queuedTx[id].retryCount > 0})]

\* a balance that covers every transfer of the model with its gas
Funded == 2000000

\* provider answers where the numbers are not in question: a balance of
\* nothing or of plenty, one gas estimate, one fee market
PlainBalances == {0, Funded}

PlainGasEstimates == {5}

PlainFeeDatas == {[maxFeePerGas |-> 6, maxPriorityFeePerGas |-> 3]}

\* requests that bypass the queue, served concurrently, at the standard fee
\* level
Next ==
    \/ \E p \in Callers, ch \in DispatchChains, k \in EncryptedKeys, s \in Symbols,
          a \in Amounts : SendDirect(p, ch, k, s, a, "standard")
    \/ \E p \in Callers, ok \in BOOLEAN : ProbeAnswer(p, ok)
    \/ \E p \in Callers, b \in PlainBalances : BalanceAnswer(p, b)
    \/ \E p \in Callers : PopulateAnswer(p)
    \/ \E p \in Callers, a \in PendingCounts : TxCountAnswer(p, a)
    \/ \E p \in Callers, g \in PlainGasEstimates : EstimateGasAnswer(p, g)
    \/ \E p \in Callers, fd \in PlainFeeDatas : FeeDataAnswer(p, fd)
    \/ \E p \in Callers, b \in PlainBalances : Balance2Answer(p, b)
    \/ \E p \in Callers : SignAnswer(p)
    \/ \E p \in Callers : BroadcastAnswer(p)
    \/ \E p \in Callers, m \in ProviderErrors : ProviderThrows(p, m)
    \/ Tick

Spec == Init /\ [][Next]_vars

\* the same requests, with the progress the program itself provides: time
\* passes.  A provider call is given no timeout (getProvider constructs the
\* JsonRpcProvider with its URL only, the dispatchers pass no timeout to the
\* calls they await) and no timer races an await, so no step of a request
\* is taken unless the provider answers or rejects.
TimedSpec == Init /\ [][Next]_vars /\ WF_vars(Tick)

\* queued requests and manual retries, served concurrently
QueueNext ==
    \/ \E p \in Callers, ch \in DispatchChains, k \in EncryptedKeys, s \in Symbols,
          a \in Amounts : SendQueued(p, ch, k, s, a, "standard")
    \/ \E p \in Callers, id \in QueueIds : Retry(p, id)
    \/ \E p \in Callers, ok \in BOOLEAN : ProbeAnswer(p, ok)
    \/ \E p \in Callers, b \in PlainBalances : BalanceAnswer(p, b)
    \/ \E p \in Callers : PopulateAnswer(p)
    \/ \E p \in Callers, a \in PendingCounts : TxCountAnswer(p, a)
    \/ \E p \in Callers, g \in PlainGasEstimates : EstimateGasAnswer(p, g)
    \/ \E p \in Callers, fd \in PlainFeeDatas : FeeDataAnswer(p, fd)
    \/ \E p \in Callers, b \in PlainBalances : Balance2Answer(p, b)
    \/ \E p \in Callers : SignAnswer(p)
    \/ \E p \in Callers : BroadcastAnswer(p)
    \/ \E p \in Callers, m \in ProviderErrors : ProviderThrows(p, m)
    \/ \E p \in Callers : ProcessFinish(p)
    \/ Tick

QueueSpec == Init /\ [][QueueNext]_vars

\* what the native transfer of the model costs at the standard fee level
\* when the provider estimates the gas and the fee market answers
StandardCost ==
    ParseEther("1.5")
       + GasLimitOf("ETHEREUM", FALSE, 5) * TieredFee(BufferedFee(6), "standard")

\* the balances the provider answers with where the numbers are in
\* question: at and just below the amounts and the standard cost
FundsBalances ==
    {0, ParseEther("1.5") - 1, ParseEther("1.5"), StandardCost - 1, StandardCost,
     ParseUnits6("1.5") - 1, ParseUnits6("1.5"), Funded}

\* the requests are served one at a time
FundsCallers == {"r1"}

\* the sender's pending count as the provider answers it
FundsPendingCounts == {0}

\* direct and queued requests at every fee level, one at a time and within
\* one instant, with the amounts, balances and fees of the provider's answers
FundsNext ==
    \/ \E p \in FundsCallers, ch \in DispatchChains, k \in EncryptedKeys, s \in Symbols,
          a \in Amounts, l \in FeeLevels : SendDirect(p, ch, k, s, a, l)
    \/ \E p \in FundsCallers, ch \in DispatchChains, k \in EncryptedKeys, s \in Symbols,
          a \in Amounts, l \in FeeLevels : SendQueued(p, ch, k, s, a, l)
    \/ \E p \in FundsCallers, ok \in BOOLEAN : ProbeAnswer(p, ok)
    \/ \E p \in FundsCallers, b \in FundsBalances : BalanceAnswer(p, b)
    \/ \E p \in FundsCallers : PopulateAnswer(p)
    \/ \E p \in FundsCallers, a \in FundsPendingCounts : TxCountAnswer(p, a)
    \/ \E p \in FundsCallers, g \in GasEstimates : EstimateGasAnswer(p, g)
    \/ \E p \in FundsCallers, fd \in FeeDatas : FeeDataAnswer(p, fd)
    \/ \E p \in FundsCallers, b \in FundsBalances : Balance2Answer(p, b)
    \/ \E p \in FundsCallers : SignAnswer(p)
    \/ \E p \in FundsCallers : BroadcastAnswer(p)
    \/ \E p \in FundsCallers, m \in ProviderErrors : ProviderThrows(p, m)
    \/ \E p \in FundsCallers : ProcessFinish(p)

FundsSpec == Init /\ [][FundsNext]_vars

----------------------------------------------------------------------------
(* The resource-model dispatcher (sendTronTransaction, part_002 365-499)    *)
(* and the UTXO dispatcher (sendUTXOTransaction, utxoTransactionManager.ts  *)
(* 56-151).  A call of either is a request of kind "tron" or "utxo" in      *)
(* calls; every await is one step the provider answers or rejects.          *)

\* the symbols of the TRON requests: the native currency, a TRC20 token
\* and a symbol that is neither
TronSymbols == {"TRX", "USDT", "XYZ"}

\* !!TRC20_TOKENS[symbol]
IsTrc20(symbol) == symbol \in {"USDT", "USDC"}

\* the recipients of the TRON requests
TronAddresses == {"TRecipient", "0xAA"}

\* tronWeb.isAddress(toAddress)
IsTronAddress(a) == a = "TRecipient"

\* Math.floor(numAmount * 1e6), for TRX and for the six-decimal tokens
AmountSun(amount) == IF amount = "1.5" THEN 1500000 ELSE 0

\* the TRX a token transfer must leave for fees, in sun
MinTrxForFees == 15000000

\* the balances the TRON provider answers with
TronBalances == {0, AmountSun("1.5"), MinTrxForFees}

\* the chains of the UTXO requests
UtxoChains == {"BITCOIN"}

\* CHAIN_CONFIG[chain] of utxoTransactionManager.ts is defined
UtxoChainConfigured(chain) == chain \in {"BITCOIN", "LITECOIN", "DOGECOIN"}

\* encryptedXpub and encryptedWif of a request: a pair that decrypts, and a
\* pair of which one decrypts to the empty string
UtxoKeys == {"encXW", "encEmpty"}

\* !(!xpub || !wif)
UtxoKeysPlausible(keys) == keys = "encXW"

\* process.env.CRYPTOAPIS_API_KEY is set
ApiKeyConfigured == TRUE

\* the messages of the errors the providers of the three chain types
\* reject with
ChainErrors == {"timeout", "rate limit exceeded", "insufficient funds",
                "malformed transaction"}

\* the same, with a message TronWeb hands over hex-encoded
TronErrors == ChainErrors \cup {"74696d656f7574"}

\* the catch block of sendTronTransaction, lines 478-487: a message of hex
\* digits is decoded to the characters it encodes
DecodedMessage(message) ==
    IF message = "74696d656f7574" THEN "timeout" ELSE message

\* the catch block of sendTronTransaction, lines 489-491
TronIsRetryable(decodedMessage) ==
    \/ Includes(decodedMessage, "timeout")
    \/ Includes(decodedMessage, "network")
    \/ Includes(decodedMessage, "bandwidth")

\* the catch block of sendTronTransaction: the result
TronCaught(message) ==
    Failure(DecodedMessage(message), TronIsRetryable(DecodedMessage(message)))

\* the catch block of sendUTXOTransaction, lines 142-143
UtxoIsRetryable(message) ==
    /\ ~Includes(message, "insufficient")
    /\ ~Includes(message, "invalid")

\* the catch block of sendUTXOTransaction: the result
UtxoCaught(message) == Failure(message, UtxoIsRetryable(message))

\* the request p is serving goes on as c; nothing else changes
CallStep(p, c) ==
    /\ calls' = [calls EXCEPT ![p] = c]
    /\ UNCHANGED <<now, nonceCache, transactionQueue, queuedTx, nextQueueId, terminal>>
    /\ UNCHANGED harnessVars
    /\ UNCHANGED webhookVars
    /\ UNCHANGED queryVars

\* sendTronTransaction, lines 371-401 and 424-430: up to the first await
EnterTron(c, to) ==
    IF ~KeyPlausible(c.key)
    THEN Returned(c, Failure("Invalid or corrupted private key", FALSE))
    ELSE IF ~AmountValid(c.amount)
    THEN Returned(c, Failure("Invalid amount", FALSE))
    ELSE IF ~IsTronAddress(to)
    THEN Returned(c, Failure("Invalid TRON address", FALSE))
    ELSE IF c.symbol = "TRX"
    THEN [c EXCEPT !.pc = "tronbalance", !.value = AmountSun(c.amount)]
    ELSE IF IsTrc20(c.symbol)
    THEN [c EXCEPT !.pc = "trxfee", !.value = AmountSun(c.amount)]
    ELSE Returned(c, Failure("Unsupported token", FALSE))

\* POST /send on TRON (part_002 97-103)
SendTron(p, key, to, symbol, amount) ==
    /\ SlotFree(p)
    /\ CallStep(p, EnterTron([IdleCall EXCEPT !.kind = "tron", !.chain = "TRON",
                                              !.key = key, !.symbol = symbol,
                                              !.amount = amount], to))

\* lines 401-411: tronWeb.trx.getBalance answers, for a TRX transfer
TronBalanceAnswer(p, balance) ==
    /\ calls[p].pc = "tronbalance"
    /\ LET c == [calls[p] EXCEPT !.balance = balance]
       IN CallStep(p, IF balance < c.value
                      THEN Rejected(c, balance, "Insufficient TRX balance")
                      ELSE [c EXCEPT !.pc = "sendtrx"])

\* lines 411-412: transactionBuilder.sendTrx answers
SendTrxAnswer(p) ==
    /\ calls[p].pc = "sendtrx"
    /\ CallStep(p, [calls[p] EXCEPT !.pc = "tronsign"])

\* lines 412-413: tronWeb.trx.sign answers
TronSignAnswer(p) ==
    /\ calls[p].pc = "tronsign"
    /\ CallStep(p, [calls[p] EXCEPT !.pc = "sendraw"])

\* lines 413-423 and 464-470: tronWeb.trx.sendRawTransaction answers, with
\* result.result set or not and with result.message
SendRawAnswer(p, accepted, message) ==
    /\ calls[p].pc = "sendraw"
    /\ CallStep(p, Returned(calls[p], IF accepted THEN Success
                                      ELSE Failure(message, TRUE)))

\* MUTANT of TrxFeeAnswer: a token transfer goes on whatever TRX the sender
\* holds
TrxFeeAnswer_NoReserve(p, balance) ==
    /\ calls[p].pc = "trxfee"
    /\ CallStep(p, [calls[p] EXCEPT !.pc = "contract", !.balance = balance])

\* lines 430-440: tronWeb.trx.getBalance answers, for a token transfer
TrxFeeAnswer(p, balance) ==
    /\ calls[p].pc = "trxfee"
    /\ LET c == [calls[p] EXCEPT !.balance = balance]
       IN CallStep(p, IF balance < MinTrxForFees
                      THEN Rejected(c, balance, "Insufficient TRX for network fees")
                      ELSE [c EXCEPT !.pc = "contract"])

\* lines 440-443: tronWeb.contract().at answers
ContractAnswer(p) ==
    /\ calls[p].pc = "contract"
    /\ CallStep(p, [calls[p] EXCEPT !.pc = "tokenbalance"])

\* lines 443-453: contract.balanceOf answers
TokenBalanceAnswer(p, balance) ==
    /\ calls[p].pc = "tokenbalance"
    /\ LET c == calls[p]
       IN CallStep(p, IF balance < c.value
                      THEN Rejected(c, balance, "Insufficient token balance")
                      ELSE [c EXCEPT !.pc = "transfer"])

\* lines 453-470: contract.transfer(...).send answers with the hash
TransferAnswer(p) ==
    /\ calls[p].pc = "transfer"
    /\ CallStep(p, Returned(calls[p], Success))

\* an awaited call of sendTronTransaction rejects
TronThrows(p, message) ==
    /\ calls[p].pc \in {"tronbalance", "sendtrx", "tronsign", "sendraw", "trxfee",
                        "contract", "tokenbalance", "transfer"}
    /\ CallStep(p, IF Escapes(calls[p]) THEN Threw(calls[p])
                   ELSE Returned(calls[p], TronCaught(message)))

\* sendUTXOTransaction, lines 64-97: up to the first await.  The amount is
\* put into the create-and-sign request as it came
EnterUtxo(c) ==
    IF ~UtxoChainConfigured(c.chain)
    THEN Returned(c, Failure("Unsupported chain", FALSE))
    ELSE IF ~UtxoKeysPlausible(c.key)
    THEN Returned(c, Failure("Invalid or corrupted wallet keys", FALSE))
    ELSE IF ~ApiKeyConfigured
    THEN Returned(c, UtxoCaught("CRYPTOAPIS_API_KEY not configured"))
    ELSE [c EXCEPT !.pc = "create"]

\* POST /send on a UTXO chain (part_002 104-113)
SendUtxo(p, chain, keys, amount) ==
    /\ SlotFree(p)
    /\ CallStep(p, EnterUtxo([IdleCall EXCEPT !.kind = "utxo", !.chain = chain,
                                              !.key = keys, !.amount = amount]))

\* the provider call call c awaits ended with this outcome: "answered" with
\* the transaction id asked for, "empty" without it, or "rejected"
Staged(c, outcome) ==
    [c EXCEPT !.stages = Append(@, [stage |-> c.pc, outcome |-> outcome])]

\* sendUTXOTransaction returns r; the stages it ran are kept as history
UtxoReturned(c, r) == [Returned(c, r) EXCEPT !.stages = c.stages]

\* MUTANT of CreateAnswer: the broadcast is made whatever create-and-sign
\* answered
CreateAnswer_Always(p, hasId) ==
    /\ calls[p].pc = "create"
    /\ LET c == Staged(calls[p], IF hasId THEN "answered" ELSE "empty")
       IN CallStep(p, [c EXCEPT !.pc = "utxobroadcast"])

\* lines 82-117: create-and-sign answers, with a transactionId or without
CreateAnswer(p, hasId) ==
    /\ calls[p].pc = "create"
    /\ LET c == Staged(calls[p], IF hasId THEN "answered" ELSE "empty")
       IN CallStep(p, IF hasId THEN [c EXCEPT !.pc = "utxobroadcast"]
                      ELSE UtxoReturned(c, Failure("Failed to create transaction", TRUE)))

\* lines 111-135: the broadcast answers, with a transactionId or without
UtxoBroadcastAnswer(p, hasHash) ==
    /\ calls[p].pc = "utxobroadcast"
    /\ LET c == Staged(calls[p], IF hasHash THEN "answered" ELSE "empty")
       IN CallStep(p, UtxoReturned(c,
                        IF hasHash THEN Success
                        ELSE Failure("Failed to broadcast transaction", TRUE)))

\* an awaited call of sendUTXOTransaction rejects
UtxoThrows(p, message) ==
    /\ calls[p].pc \in {"create", "utxobroadcast"}
    /\ LET c == Staged(calls[p], "rejected")
       IN CallStep(p, IF Escapes(c) THEN Threw(c)
                      ELSE UtxoReturned(c, UtxoCaught(message)))

\* the messages result.message of a refused TRON transaction carries
RefusalMessages == {"Transaction failed", "insufficient funds"}

\* requests on the three chain types, direct and queued, one at a time and
\* within one instant
ChainsNext ==
    \/ \E p \in FundsCallers, ch \in DispatchChains, k \in EncryptedKeys, s \in Symbols,
          a \in Amounts : SendDirect(p, ch, k, s, a, "standard")
    \/ \E p \in FundsCallers, ch \in DispatchChains, k \in EncryptedKeys, s \in Symbols,
          a \in Amounts : SendQueued(p, ch, k, s, a, "standard")
    \/ \E p \in FundsCallers, id \in QueueIds : Retry(p, id)
    \/ \E p \in FundsCallers, ok \in BOOLEAN : ProbeAnswer(p, ok)
    \/ \E p \in FundsCallers, b \in PlainBalances : BalanceAnswer(p, b)
    \/ \E p \in FundsCallers : PopulateAnswer(p)
    \/ \E p \in FundsCallers, a \in FundsPendingCounts : TxCountAnswer(p, a)
    \/ \E p \in FundsCallers, g \in PlainGasEstimates : EstimateGasAnswer(p, g)
    \/ \E p \in FundsCallers, fd \in PlainFeeDatas : FeeDataAnswer(p, fd)
    \/ \E p \in FundsCallers, b \in PlainBalances : Balance2Answer(p, b)
    \/ \E p \in FundsCallers : SignAnswer(p)
    \/ \E p \in FundsCallers : BroadcastAnswer(p)
    \/ \E p \in FundsCallers, m \in ChainErrors : ProviderThrows(p, m)
    \/ \E p \in FundsCallers : ProcessFinish(p)
    \/ \E p \in FundsCallers, k \in EncryptedKeys, to \in TronAddresses,
          s \in TronSymbols, a \in Amounts : SendTron(p, k, to, s, a)
    \/ \E p \in FundsCallers, b \in TronBalances : TronBalanceAnswer(p, b)
    \/ \E p \in FundsCallers : SendTrxAnswer(p)
    \/ \E p \in FundsCallers : TronSignAnswer(p)
    \/ \E p \in FundsCallers, ok \in BOOLEAN, m \in RefusalMessages :
          SendRawAnswer(p, ok, m)
    \/ \E p \in FundsCallers, b \in TronBalances : TrxFeeAnswer(p, b)
    \/ \E p \in FundsCallers : ContractAnswer(p)
    \/ \E p \in FundsCallers, b \in TronBalances : TokenBalanceAnswer(p, b)
    \/ \E p \in FundsCallers : TransferAnswer(p)
    \/ \E p \in FundsCallers, m \in TronErrors : TronThrows(p, m)
    \/ \E p \in FundsCallers, ch \in UtxoChains, k \in UtxoKeys, a \in Amounts :
          SendUtxo(p, ch, k, a)
    \/ \E p \in FundsCallers, ok \in BOOLEAN : CreateAnswer(p, ok)
    \/ \E p \in FundsCallers, ok \in BOOLEAN : UtxoBroadcastAnswer(p, ok)
    \/ \E p \in FundsCallers, m \in ChainErrors : UtxoThrows(p, m)

ChainsSpec == Init /\ [][ChainsNext]_vars

----------------------------------------------------------------------------
(* Sends for several (chain, address) pairs, served concurrently            *)

\* the senders, each a chain and the key of a wallet: wallet 0xAA on two
\* chains, and wallets 0xAA and 0xBB on one chain
Pairs == {<<"ETHEREUM", "encA">>, <<"BSC", "encA">>, <<"BSC", "encB">>}

\* the messages the provider calls of these sends reject with
PairErrors == {"nonce too low"}

\* native transfers of funded wallets on two chains from two addresses,
\* served concurrently and within one instant
PairsNext ==
    \/ \E p \in Callers, pr \in Pairs :
          SendDirect(p, pr[1], pr[2], "ETH", "1.5", "standard")
    \/ \E p \in Callers : ProbeAnswer(p, TRUE)
    \/ \E p \in Callers : BalanceAnswer(p, Funded)
    \/ \E p \in Callers, a \in FundsPendingCounts : TxCountAnswer(p, a)
    \/ \E p \in Callers, g \in PlainGasEstimates : EstimateGasAnswer(p, g)
    \/ \E p \in Callers, fd \in PlainFeeDatas : FeeDataAnswer(p, fd)
    \/ \E p \in Callers : Balance2Answer(p, Funded)
    \/ \E p \in Callers : SignAnswer(p)
    \/ \E p \in Callers : BroadcastAnswer(p)
    \/ \E p \in Callers, m \in PairErrors : ProviderThrows(p, m)

PairsSpec == Init /\ [][PairsNext]_vars

----------------------------------------------------------------------------
(* Webhook ingestion and status queries: operations                          *)

\* s.toUpperCase()
ToUpperCase(s) ==
    CASE s = "eth-mainnet" -> "ETH-MAINNET"
      [] s = "bitcoin"     -> "BITCOIN"
      [] s = "btc"         -> "BTC"
      [] s = "tron"        -> "TRON"
      [] OTHER             -> s

\* the chainMap of POST /cryptoapis, lines 191-198
ChainMap(blockchain) ==
    CASE blockchain = "bitcoin"  -> "BITCOIN"
      [] blockchain = "ethereum" -> "ETHEREUM"
      [] OTHER                   -> Undefined

\* the metadata the bodies of the model carry
WithParties(r) == [r EXCEPT !.fromAddress = "0xSENDER", !.toAddress = "0xRECIPIENT"]

WithRecipient(r) == [r EXCEPT !.toAddress = "0xRECIPIENT"]

WithAmount(r) == [r EXCEPT !.amount = "1.5"]

WithBlock(r) == [r EXCEPT !.blockNumber = "18000000", !.blockHash = "0xBLOCK"]

\* POST /alchemy, lines 86-104: the record of one transfer of the activity
\* list; parseInt of a missing blockNum is NaN
ActivityRecord(tx, t) ==
    LET r == WithAmount(WithParties(
                 Record(tx.hash, IF tx.mined THEN "confirmed" ELSE "pending",
                        IF tx.mined THEN 1 ELSE 0, ToUpperCase("eth-mainnet"), t)))
    IN IF tx.mined THEN WithBlock(r) ELSE [r EXCEPT !.blockNumber = "NaN"]

\* the number of elements the loop of lines 84-102 completes: reading
\* tx.hash of a null element throws, which ends the loop and the switch
Completed(activity) ==
    IF \E i \in 1..Len(activity) : activity[i] = NullTx
    THEN (CHOOSE i \in 1..Len(activity) :
             /\ activity[i] = NullTx
             /\ \A j \in 1..(i - 1) : activity[j] # NullTx) - 1
    ELSE Len(activity)

\* the handler's try block is left by an exception
HandlerThrows(b) ==
    /\ b.endpoint = "alchemy"
    /\ b.event = "ADDRESS_ACTIVITY"
    /\ Completed(b.activity) < Len(b.activity)

\* POST /alchemy, lines 80-145: the records the switch stores, in order
AlchemyRecords(b, t) ==
    CASE b.event = "ADDRESS_ACTIVITY" ->
            [i \in 1..Completed(b.activity) |-> ActivityRecord(b.activity[i], t)]
      [] b.event = "MINED_TRANSACTION" ->
            <<WithBlock(WithAmount(WithParties(Record(b.hash, "confirmed", 1, "ETHEREUM", t))))>>
      [] b.event = "DROPPED_TRANSACTION" ->
            <<WithParties(Record(b.hash, "failed", 0, "ETHEREUM", t))>>
      [] OTHER -> <<>>

\* POST /cryptoapis, lines 200-262
CryptoApisRecords(b, t) ==
    LET chain == IF ChainMap("bitcoin") # Undefined THEN ChainMap("bitcoin")
                 ELSE ToUpperCase("bitcoin")
    IN CASE b.event = "CONFIRMED_TX" ->
               <<WithBlock(WithAmount(WithParties(
                    Record(b.hash, "confirmed", OrElse(b.confirmations, 1), chain, b.ts))))>>
         [] b.event = "UNCONFIRMED_TX" ->
               <<WithAmount(WithParties(Record(b.hash, "pending", 0, chain, t)))>>
         [] b.event \in {"ADDRESS_COINS_TRANSACTION_CONFIRMED",
                         "ADDRESS_TOKENS_TRANSACTION_CONFIRMED"} ->
               <<WithBlock(WithAmount(WithParties(
                    Record(b.hash, "confirmed", OrElse(b.confirmations, 6), chain, b.ts))))>>
         [] OTHER -> <<>>

\* MUTANT of QuidaxRecords: an event the switch does not name is stored as
\* pending
QuidaxRecords_StoreUnknown(b, t) ==
    IF b.event = "other"
    THEN <<Record(b.hash, "pending", 0, ToUpperCase("btc"), t)>>
    ELSE <<>>

\* POST /quidax, lines 300-370
QuidaxRecords(b, t) ==
    CASE b.event = "deposit.successful" ->
            <<WithAmount(WithRecipient(
                 Record(b.hash, "confirmed", OrElse(b.confirmations, 1), ToUpperCase("btc"),
                        OrElse(b.ts, t))))>>
      [] b.event = "withdraw.successful" ->
            <<WithAmount(WithRecipient(
                 Record(b.hash, "confirmed", 1, ToUpperCase("btc"), OrElse(b.ts, t))))>>
      [] b.event = "withdraw.failed" ->
            <<WithAmount(WithRecipient(Record(b.hash, "failed", 0, ToUpperCase("btc"), t)))>>
      [] OTHER -> <<>>

\* MUTANT of TronGridRecords: a successful return code is stored as pending
TronGridRecords_Pending(b, t) ==
    IF b.event = "none" THEN <<>>
    ELSE <<WithAmount(WithParties(Record(b.hash, "pending", 0, "TRON", OrElse(b.ts, t))))>>

\* POST /trongrid, lines 385-400
TronGridRecords(b, t) ==
    IF b.event = "none" THEN <<>>
    ELSE <<WithAmount(WithParties(
              Record(b.hash, IF b.event = "SUCCESS" THEN "confirmed" ELSE "pending",
                     IF b.event = "SUCCESS" THEN 1 ELSE 0, "TRON", OrElse(b.ts, t))))>>

\* the records a handler stores for body b arriving at time t
RecordsOf(b, t) ==
    CASE b.endpoint = "alchemy"    -> AlchemyRecords(b, t)
      [] b.endpoint = "cryptoapis" -> CryptoApisRecords(b, t)
      [] b.endpoint = "quidax"     -> QuidaxRecords(b, t)
      [] b.endpoint = "trongrid"   -> TronGridRecords(b, t)

\* verifyAlchemySignature, lines 42-57 (Buffer.from(undefined) and
\* timingSafeEqual on buffers of different lengths throw), and
\* verifyCryptoApisSignature / verifyQuidaxSignature, lines 155-167, 272-284
VerifySignature(endpoint, e, signature) ==
    IF ~e.signingKey THEN "true"
    ELSE IF signature = "valid" THEN "true"
    ELSE IF endpoint = "alchemy" /\ signature \in {"missing", "short"} THEN "throws"
    ELSE "false"

\* the outcome of the check at the head of a handler; POST /trongrid has none
SignatureCheck(endpoint, e, signature) ==
    IF endpoint = "trongrid" \/ ~e.production THEN "true"
    ELSE VerifySignature(endpoint, e, signature)

\* MUTANT of Upserted: fields the new record lacks keep their old value
Upserted_Merge(old, rec) ==
    [f \in DOMAIN rec |->
        IF f \in {"fromAddress", "toAddress", "amount", "blockNumber", "blockHash"}
           /\ old.present /\ rec[f] = Undefined
        THEN old[f] ELSE rec[f]]

\* what transactionStatuses.set(rec.txHash, rec) leaves under the key that
\* held old
Upserted(old, rec) == rec

\* Map.set: a new key goes to the end of the iteration order
KeyOrderAfterSet(order, h) ==
    IF \E i \in 1..Len(order) : order[i] = h THEN order ELSE Append(order, h)

\* the loop of transactionStatuses.set calls of one request
RECURSIVE StoreAll(_, _)
StoreAll(st, recs) ==
    IF recs = <<>> THEN st
    ELSE LET rec == Head(recs)
         IN StoreAll([statuses |-> [st.statuses EXCEPT ![rec.txHash] =
                                        Upserted(st.statuses[rec.txHash], rec)],
                      order    |-> KeyOrderAfterSet(st.order, rec.txHash),
                      replaced |-> st.statuses[rec.txHash]],
                     Tail(recs))

\* the four POST handlers: the signature check, then the switch with its
\* upserts and notifications, then the answer; an exception in the switch
\* is answered by the catch block with 500
Webhook(b, signature) ==
    /\ signature \in SignaturesSent(b.endpoint, env)
    /\ handled < MaxRequests
    /\ handled' = handled + 1
    /\ request' = [NoRequest EXCEPT !.kind = "webhook", !.body = b, !.signature = signature]
    /\ LET check == SignatureCheck(b.endpoint, env, signature)
           recs  == RecordsOf(b, now)
           st    == StoreAll([statuses |-> transactionStatuses, order |-> statusOrder,
                              replaced |-> NoRecord], recs)
       IN IF check = "true"
          THEN /\ transactionStatuses' = st.statuses
               /\ statusOrder' = st.order
               /\ replaced' = st.replaced
               /\ response' = IF HandlerThrows(b)
                              THEN [NoResponse EXCEPT !.code = 500, !.notified = Len(recs)]
                              ELSE [NoResponse EXCEPT !.code = 200, !.success = TRUE,
                                                      !.notified = Len(recs)]
          ELSE /\ response' = [NoResponse EXCEPT !.code = IF check = "false" THEN 401 ELSE 500]
               /\ replaced' = NoRecord
               /\ UNCHANGED <<transactionStatuses, statusOrder>>
    /\ UNCHANGED <<now, nonceCache, env>>
    /\ UNCHANGED harnessVars
    /\ UNCHANGED dispatchVars
    /\ UNCHANGED queryVars

\* transactionStatuses.get(txHash)
Lookup(txHash) ==
    IF txHash \in Hashes THEN transactionStatuses[txHash] ELSE NoRecord

\* MUTANT of GetStatus: the lookup consumes the record
GetStatus_Consuming(txHash) ==
    /\ handled < MaxRequests
    /\ handled' = handled + 1
    /\ request' = [NoRequest EXCEPT !.kind = "status", !.txHash = txHash]
    /\ response' = IF Lookup(txHash).present
                   THEN [NoResponse EXCEPT !.code = 200, !.success = TRUE, !.data = <<txHash>>]
                   ELSE [NoResponse EXCEPT !.code = 404]
    /\ transactionStatuses' = [h \in Hashes |->
                                  IF h = txHash THEN NoRecord ELSE transactionStatuses[h]]
    /\ replaced' = NoRecord
    /\ UNCHANGED <<now, nonceCache, env, statusOrder>>
    /\ UNCHANGED harnessVars
    /\ UNCHANGED dispatchVars
    /\ UNCHANGED queryVars

\* GET /status/:txHash, lines 410-419; data lists the hashes whose stored
\* records the answer carries
GetStatus(txHash) ==
    /\ handled < MaxRequests
    /\ handled' = handled + 1
    /\ request' = [NoRequest EXCEPT !.kind = "status", !.txHash = txHash]
    /\ response' = IF Lookup(txHash).present
                   THEN [NoResponse EXCEPT !.code = 200, !.success = TRUE, !.data = <<txHash>>]
                   ELSE [NoResponse EXCEPT !.code = 404]
    /\ replaced' = NoRecord
    /\ UNCHANGED <<now, nonceCache, env, transactionStatuses, statusOrder>>
    /\ UNCHANGED harnessVars
    /\ UNCHANGED dispatchVars
    /\ UNCHANGED queryVars

\* the filters of GET /statuses, lines 427-433; an empty parameter is falsy
Matches(r, chain, status) ==
    /\ chain # "" => r.chain = ToUpperCase(chain)
    /\ status # "" => r.status = status

\* results.sort((a, b) => b.timestamp.getTime() - a.timestamp.getTime()) on
\* a sequence of hashes: a stable sort, equal timestamps keep their order
RECURSIVE SortedRecentFirst(_)
SortedRecentFirst(hs) ==
    IF hs = <<>> THEN <<>>
    ELSE LET front == SortedRecentFirst(SubSeq(hs, 1, Len(hs) - 1))
             x     == hs[Len(hs)]
             keep  == {i \in 0..Len(front) :
                          \A j \in 1..i : transactionStatuses[front[j]].timestamp
                                            >= transactionStatuses[x].timestamp}
             k     == CHOOSE i \in keep : \A j \in keep : j <= i
         IN SubSeq(front, 1, k) \o <<x>> \o SubSeq(front, k + 1, Len(front))

\* MUTANT of Listed: the oldest records first
Listed_OldestFirst(chain, status) ==
    LET all == SelectSeq(statusOrder, LAMBDA h : Matches(transactionStatuses[h], chain, status))
        s   == SortedRecentFirst(all)
        r   == [i \in 1..Len(s) |-> s[Len(s) + 1 - i]]
    IN SubSeq(r, 1, Min(ListCap, Len(r)))

\* GET /statuses, lines 425-438: Array.from(values()), the filters, the sort
\* and the slice
Listed(chain, status) ==
    LET all == SelectSeq(statusOrder, LAMBDA h : Matches(transactionStatuses[h], chain, status))
        s   == SortedRecentFirst(all)
    IN SubSeq(s, 1, Min(ListCap, Len(s)))

\* GET /statuses
GetStatuses(chain, status) ==
    /\ handled < MaxRequests
    /\ handled' = handled + 1
    /\ request' = [NoRequest EXCEPT !.kind = "list", !.chain = chain, !.status = status]
    /\ response' = [NoResponse EXCEPT !.code = 200, !.success = TRUE,
                                      !.data = Listed(chain, status)]
    /\ replaced' = NoRecord
    /\ UNCHANGED <<now, nonceCache, env, transactionStatuses, statusOrder>>
    /\ UNCHANGED harnessVars
    /\ UNCHANGED dispatchVars
    /\ UNCHANGED queryVars

\* the query parameters of GET /statuses in the model; "" is a parameter
\* left out
ChainFilters == {"", "bitcoin", "TRON"}

StatusFilters == {"", "confirmed", "failed"}

\* the hashes looked up: those of the notifications and one no notification
\* refers to
LookedUp == Hashes \cup {"0xh9"}

WebhookBodies == AlchemyBodies \cup CryptoApisBodies \cup QuidaxBodies \cup TronGridBodies

WebhookNext ==
    \/ \E b \in WebhookBodies, g \in Signatures : Webhook(b, g)
    \/ \E h \in LookedUp : GetStatus(h)
    \/ \E c \in ChainFilters, t \in StatusFilters : GetStatuses(c, t)
    \/ Tick

\* batches of account activity, and lookups of the transfers they name
BatchNext ==
    \/ \E b \in BatchBodies, g \in Signatures : Webhook(b, g)
    \/ \E h \in LookedUp : GetStatus(h)
    \/ Tick

BatchSpec == Init /\ [][BatchNext]_vars

\* the process is started in any environment
WebhookInit == \E e \in Envs : Start(e)

WebhookSpec == WebhookInit /\ [][WebhookNext]_vars

----------------------------------------------------------------------------
(* Balance and fee queries: operations.  getEVMBalanceRobust and             *)
(* estimateTransactionFee of src/transactionManager.ts, estimateTronFee of   *)
(* part_002 and estimateUTXOFee of src/utxoTransactionManager.ts, behind the *)
(* routes POST /balance and POST /estimate-fee.                              *)

\* a query takes the first free slot
QuerySlotFree(q) ==
    /\ queries[q].pc \in {"idle", "done"}
    /\ q = "q2" => queries["q1"].pc \notin {"idle", "done"}

\* the function called by the route has returned: the route answers
Answered(c, a) == [c EXCEPT !.pc = "done", !.answer = a]

\* POST /balance, part_002 lines 164-170: the body of the response is built
\* from the balance of the function's result; its error is not copied
BalanceResponse(result) ==
    [NoAnswer EXCEPT !.success = TRUE, !.balance = result.balance]

\* the catch blocks of getEVMBalanceRobust (lines 456-459) and
\* estimateTransactionFee (lines 511-513), of getTronBalance and getUTXOBalance,
\* and what the routes answer: POST /balance sets success: true whatever
\* the function returned, POST /estimate-fee spreads the function's result
\* over success: true
QueryCaught(c, message) ==
    LET r == [c EXCEPT !.returned = [balance |-> 0, error |-> message]]
    IN IF c.kind = "balance" THEN Answered(r, BalanceResponse(r.returned))
       ELSE Answered(r, [NoAnswer EXCEPT !.error = message])

\* POST /balance (part_002 139-177), up to the first await of the balance
\* function of the chain type: getEVMBalanceRobust up to the first liveness
\* probe of getProvider, getTronBalance (part_002 503-525) up to its lookup
\* or, for a symbol that is neither TRX nor a TRC20 token, to its return,
\* getUTXOBalance (utxoTransactionManager.ts 193-213) up to its request
Balance(q, chain, symbol) ==
    /\ QuerySlotFree(q)
    /\ LET c == [IdleQuery EXCEPT !.kind = "balance", !.chain = chain,
                                  !.symbol = symbol]
       IN queries' = [queries EXCEPT ![q] =
             CASE GetChainType(chain) = "evm" ->
                     [c EXCEPT !.pc = "probe", !.rpc = FirstEndpoint]
               [] GetChainType(chain) = "tron" ->
                     IF symbol = "TRX" THEN [c EXCEPT !.pc = "tronbal"]
                     ELSE IF IsTrc20(symbol) THEN [c EXCEPT !.pc = "troncontract"]
                     ELSE QueryCaught(c, "Unknown token")
               [] GetChainType(chain) = "utxo" -> [c EXCEPT !.pc = "utxobal"]]
    /\ UNCHANGED <<now, nonceCache>>
    /\ UNCHANGED harnessVars
    /\ UNCHANGED dispatchVars
    /\ UNCHANGED webhookVars

\* estimateTronFee, part_002 lines 549-556: a token transfer is priced without
\* a network call, 65000 * 420 / 1e6
TronTokenFee == "27.3"

\* POST /estimate-fee (part_002 180-230), up to the first await of the
\* function it calls: estimateTransactionFee suspends in getProvider,
\* estimateTronFee in getBandwidth (TRX) or returns at once (a token),
\* estimateUTXOFee in the fee request
EstimateFee(q, chain, symbol, amount) ==
    /\ QuerySlotFree(q)
    /\ symbol \in QuerySymbols(chain)
    /\ LET c == [IdleQuery EXCEPT !.kind = "estimate", !.chain = chain,
                                  !.symbol = symbol, !.amount = amount]
       IN queries' = [queries EXCEPT ![q] =
             CASE GetChainType(chain) = "evm" ->
                     [c EXCEPT !.pc = "probe", !.rpc = FirstEndpoint]
               [] GetChainType(chain) = "tron" ->
                     IF symbol = "TRX" THEN [c EXCEPT !.pc = "bandwidth"]
                     ELSE Answered(c, [NoAnswer EXCEPT !.success = TRUE,
                                                       !.estimatedFee = TronTokenFee])
               [] GetChainType(chain) = "utxo" -> [c EXCEPT !.pc = "utxofee"]]
    /\ UNCHANGED <<now, nonceCache>>
    /\ UNCHANGED harnessVars
    /\ UNCHANGED dispatchVars
    /\ UNCHANGED webhookVars

\* getProvider, lines 102-113, called by a query: endpoint rpc answers the
\* probe or fails it; then the caller up to its next await
QueryProbeAnswer(q, ok) ==
    /\ queries[q].pc = "probe"
    /\ LET c == [queries[q] EXCEPT !.probes = Append(@, [endpoint |-> queries[q].rpc,
                                                          ok |-> ok])]
       IN queries' = [queries EXCEPT ![q] =
             IF ok
             THEN (IF c.kind = "balance"
                   THEN [c EXCEPT !.pc = "balance", !.provider = c.rpc, !.rpc = 0]
                   ELSE IF ~Parses(c.amount)
                   THEN QueryCaught([c EXCEPT !.provider = c.rpc, !.rpc = 0], "invalid value")
                   ELSE [c EXCEPT !.pc = "estgas", !.provider = c.rpc, !.rpc = 0])
             ELSE IF c.rpc < RpcCount(c.chain)
             THEN [c EXCEPT !.rpc = NextEndpoint(c.rpc)]
             ELSE QueryCaught([c EXCEPT !.rpc = 0], "All RPC endpoints failed")]
    /\ UNCHANGED <<now, nonceCache>>
    /\ UNCHANGED harnessVars
    /\ UNCHANGED dispatchVars
    /\ UNCHANGED webhookVars

\* getEVMBalanceRobust, lines 446-455: the balance is answered
QueryBalanceAnswer(q, balance) ==
    /\ queries[q].pc \in {"balance", "tronbal", "trontokenbal", "utxobal"}
    /\ LET r == [queries[q] EXCEPT !.returned = [balance |-> balance, error |-> ""]]
       IN queries' = [queries EXCEPT ![q] = Answered(r, BalanceResponse(r.returned))]
    /\ UNCHANGED <<now, nonceCache>>
    /\ UNCHANGED harnessVars
    /\ UNCHANGED dispatchVars
    /\ UNCHANGED webhookVars

\* estimateGas, lines 161-171, called at line 504: the gas estimate is
\* answered, or rejected (g = 0) and replaced by the default limit
QueryEstimateGasAnswer(q, g) ==
    /\ queries[q].pc = "estgas"
    /\ LET c == queries[q]
       IN queries' = [queries EXCEPT ![q] =
             [c EXCEPT !.pc = "feedata",
                       !.gasLimit = GasLimitOf(c.chain, IsToken(c.chain, c.symbol), g)]]
    /\ UNCHANGED <<now, nonceCache>>
    /\ UNCHANGED harnessVars
    /\ UNCHANGED dispatchVars
    /\ UNCHANGED webhookVars

\* estimateGas, lines 171-189, and estimateTransactionFee, lines 506-510: the
\* fee data is answered
QueryFeeDataAnswer(q, feeData) ==
    /\ queries[q].pc = "feedata"
    /\ LET c == queries[q]
       IN queries' = [queries EXCEPT ![q] =
             Answered(c, [NoAnswer EXCEPT !.success = TRUE, !.gasLimit = c.gasLimit,
                             !.estimatedCost = c.gasLimit * MaxFeePerGasOf(feeData)])]
    /\ UNCHANGED <<now, nonceCache>>
    /\ UNCHANGED harnessVars
    /\ UNCHANGED dispatchVars
    /\ UNCHANGED webhookVars

\* the balance lookup or provider.getFeeData() rejects: the catch block of
\* the function that awaits it
QueryThrows(q, message) ==
    /\ queries[q].pc \in {"balance", "feedata", "tronbal", "troncontract",
                          "trontokenbal", "utxobal"}
    /\ queries' = [queries EXCEPT ![q] = QueryCaught(queries[q], message)]
    /\ UNCHANGED <<now, nonceCache>>
    /\ UNCHANGED harnessVars
    /\ UNCHANGED dispatchVars
    /\ UNCHANGED webhookVars

\* getTronBalance, part_002 lines 514-515: tronWeb.contract().at answers
TronContractAnswer(q) ==
    /\ queries[q].pc = "troncontract"
    /\ queries' = [queries EXCEPT ![q].pc = "trontokenbal"]
    /\ UNCHANGED <<now, nonceCache>>
    /\ UNCHANGED harnessVars
    /\ UNCHANGED dispatchVars
    /\ UNCHANGED webhookVars

\* estimateTronFee, part_002 lines 540-548 and 557-560: the bandwidth is
\* answered (ok) or the lookup rejects; the bandwidths of the model are 0,
\* priced (265 - 0) * 0.001, and one above the 265 a transfer needs
BandwidthAnswer(q, ok, bandwidth) ==
    /\ queries[q].pc = "bandwidth"
    /\ queries' = [queries EXCEPT ![q] =
          Answered(queries[q],
             [NoAnswer EXCEPT !.success = TRUE,
                 !.estimatedFee = IF ~ok THEN "0.1"
                                  ELSE IF bandwidth >= 265 THEN "0"
                                  ELSE "0.265"])]
    /\ UNCHANGED <<now, nonceCache>>
    /\ UNCHANGED harnessVars
    /\ UNCHANGED dispatchVars
    /\ UNCHANGED webhookVars

\* estimateUTXOFee, utxoTransactionManager.ts lines 244-264: the fee request
\* is answered (ok) or fails, and then the default of the chain is returned
UtxoFeeAnswer(q, ok) ==
    /\ queries[q].pc = "utxofee"
    /\ queries' = [queries EXCEPT ![q] =
          Answered(queries[q],
             IF ok THEN [NoAnswer EXCEPT !.success = TRUE, !.estimatedFee = "0.00002"]
             ELSE [NoAnswer EXCEPT !.success = TRUE, !.estimatedFee = "0.00005",
                                   !.error = "Using default fee estimate"])]
    /\ UNCHANGED <<now, nonceCache>>
    /\ UNCHANGED harnessVars
    /\ UNCHANGED dispatchVars
    /\ UNCHANGED webhookVars

\* the chains whose balance is asked for
BalanceChains == {"ETHEREUM", "TRON", "BITCOIN"}

\* the amounts of the fee queries
QueryAmounts == {"1.5", "abc"}

\* the messages a rejected query call carries
QueryErrors == {"timeout"}

QueryNext ==
    \/ \E q \in Queriers, ch \in BalanceChains, s \in {"ETH", "USDT", "XYZ"} :
          Balance(q, ch, s)
    \/ \E q \in Queriers : TronContractAnswer(q)
    \/ \E q \in Queriers, ch \in QueryChains, s \in {"ETH", "USDT", "TRX", "BTC"},
          a \in QueryAmounts : EstimateFee(q, ch, s, a)
    \/ \E q \in Queriers, ok \in BOOLEAN : QueryProbeAnswer(q, ok)
    \/ \E q \in Queriers, b \in BalancesAnswered : QueryBalanceAnswer(q, b)
    \/ \E q \in Queriers, g \in GasEstimates : QueryEstimateGasAnswer(q, g)
    \/ \E q \in Queriers, fd \in FeeDatas : QueryFeeDataAnswer(q, fd)
    \/ \E q \in Queriers, m \in QueryErrors : QueryThrows(q, m)
    \/ \E q \in Queriers, ok \in BOOLEAN, bw \in Bandwidths : BandwidthAnswer(q, ok, bw)
    \/ \E q \in Queriers, ok \in BOOLEAN : UtxoFeeAnswer(q, ok)
    \/ Tick

QuerySpec == Init /\ [][QueryNext]_vars

----------------------------------------------------------------------------
(* Properties of the nonce allocator (checked under NonceSpec)               *)

ReturnedCalls == {p \in Allocators : alloc[p].pc = "done"}

\* two returned calls on one key that were in flight at the same time
Concurrent(p, q) ==
    /\ p # q
    /\ p \in ReturnedCalls /\ q \in ReturnedCalls
    /\ AllocKey(p) = AllocKey(q)
    /\ q \in alloc[p].overlapped
    /\ p \in alloc[q].overlapped

\* C1: the nonces returned by getNextNonce calls for one key that ran
\* concurrently are pairwise distinct and form a contiguous ascending run
\* that starts no lower than the pending count the provider reported.
C1_ConcurrentNoncesDistinct ==
    \A p, q \in Allocators :
        Concurrent(p, q) =>
            /\ alloc[p].result # alloc[q].result
            /\ Max(alloc[p].result, alloc[q].result)
                 = Min(alloc[p].result, alloc[q].result) + 1
            /\ Min(alloc[p].result, alloc[q].result)
                 >= Min(alloc[p].onChainNonce, alloc[q].onChainNonce)

\* C2: every nonce getNextNonce returns is at least the pending count the
\* provider reported in that same call.
C2_NonceAtLeastPending ==
    \A p \in ReturnedCalls : alloc[p].result >= alloc[p].onChainNonce

\* a call returned a nonce above the provider's count (a fresh cache entry
\* was ahead of the chain) while the provider's count was not zero
C2_Witness ==
    \E p \in ReturnedCalls :
        alloc[p].result > alloc[p].onChainNonce /\ alloc[p].onChainNonce > 0

\* d began after c had returned, c was then the last call returned on the
\* key, no invalidation ran since c began and neither call overlapped another
Consecutive(c, d) ==
    /\ d \in ReturnedCalls
    /\ c \in alloc[d].after
    /\ ~alloc[d].invalidated
    /\ alloc[c].overlapped = {}
    /\ alloc[d].overlapped = {}

C4_AllocatorContract ==
    [][\A p \in Allocators :
          (alloc[p].pc = "fetch" /\ alloc'[p].pc = "done") =>
              LET c == alloc[p].cached
                  t == alloc[p].now
                  a == alloc'[p].onChainNonce
                  r == alloc'[p].result
                  e == nonceCache'[AllocKey(p)]
                  m == IF c.nonce >= a THEN c.nonce ELSE a
              IN  /\ t = alloc[p].began
                  /\ e.present /\ e.timestamp = t
                  /\ IF c.present /\ t - c.timestamp < 30000
                     THEN r = m /\ e.nonce = m + 1
                     ELSE r = a /\ e.nonce = a + 1]_vars

\* a call has returned the provider's count although an entry with a higher
\* nonce, exactly TTL old, was cached when it began: the cache now holds the
\* count plus one, stamped with the time of that call
C4_Witness ==
    \E p \in ReturnedCalls :
        /\ alloc[p].result = alloc[p].onChainNonce
        /\ alloc[p].after # {}
        /\ \E c \in alloc[p].after : alloc[c].result > alloc[p].result
        /\ alloc[p].began = NONCE_CACHE_TTL
        /\ alloc[p].overlapped = {}
        /\ nonceCache[AllocKey(p)] =
              [present |-> TRUE, nonce |-> alloc[p].result + 1, timestamp |-> alloc[p].began]

\* C5: the first getNextNonce begun after invalidateNonceCache for its key
\* returns exactly the pending count the provider reported in that call.
C5_AllocAfterInvalidateReturnsPending ==
    \A p \in ReturnedCalls :
        alloc[p].firstAfterInv => alloc[p].result = alloc[p].onChainNonce

----------------------------------------------------------------------------
(* Properties of the dispatcher (checked under Spec)                         *)

\* sendEVMTransaction returns from call p in this step, through its catch
\* block, with an error whose message names the nonce
NonceFailureReturns(p) ==
    /\ calls[p].pc \notin {"idle", "done", "sent"}
    /\ calls'[p].pc \in {"done", "sent"}
    /\ ~calls'[p].result.success
    /\ Includes(calls'[p].result.error, "nonce")

\* C6: when sendEVMTransaction fails with a nonce-related error for sender A
\* on chain C, the nonce cache holds no entry for (C, A) when the call
\* returns.
C6_NonceFailureInvalidatesSender ==
    [][\A p \in Callers :
          NonceFailureReturns(p) => ~nonceCache'[SenderKey(calls[p])].present]_vars

----------------------------------------------------------------------------
(* Properties of the retry queue (checked under QueueSpec)                   *)

\* the provider accepted the broadcast of call p of processQueuedTransaction
Submitted(p) ==
    /\ calls[p].kind = "process"
    /\ calls[p].pc \in {"sent", "done"}
    /\ calls[p].result.success

\* C7: two processQueuedTransaction calls for one queue id never both submit
\* the queued transfer.
C7_OverlappingProcessSubmitOnce ==
    \A p, q \in Callers :
        (p # q /\ Submitted(p) /\ Submitted(q)) => calls[p].id # calls[q].id

\* processQueuedTransaction resumes in call p with a retryable failure of
\* its dispatch while the entry's retryCount is below maxRetries
RetryableFailureBelowMax(p) ==
    /\ calls[p].pc = "sent"
    /\ calls'[p].pc = "done"
    /\ ~calls[p].result.success
    /\ calls[p].result.retryable
    /\ queuedTx[calls[p].id].retryCount < queuedTx[calls[p].id].maxRetries

\* C8: after a retryable failure with retryCount below maxRetries the entry
\* is in the queue with retryCount one higher, lastError the error of the
\* dispatch and nextRetryAt the current time plus 2^(new retryCount) seconds;
\* the result carries the queue id and retryable = true.
C8_RetryableFailureReschedules ==
    [][\A p \in Callers :
          RetryableFailureBelowMax(p) =>
              LET id == calls[p].id
                  n  == queuedTx[id].retryCount + 1
              IN  /\ id \in transactionQueue'
                  /\ queuedTx'[id].retryCount = n
                  /\ queuedTx'[id].lastError = calls[p].result.error
                  /\ queuedTx'[id].nextRetryAt = now + (2 ^ n) * 1000
                  /\ queuedTx'[id].maxRetries = queuedTx[id].maxRetries
                  /\ calls'[p].result.queueId = id
                  /\ calls'[p].result.retryable
                  /\ ~calls'[p].result.success]_vars

\* a call has returned the second retry of an entry, scheduled four seconds
\* after a time later than start-up; the entry is queued
C8_Witness ==
    \E p \in Callers :
        /\ calls[p].pc = "done"
        /\ calls[p].result.queueId = calls[p].id
        /\ calls[p].id \in transactionQueue
        /\ calls[p].result.retryNote = <<2, DefaultMaxRetries>>
        /\ queuedTx[calls[p].id].retryCount = 2
        /\ queuedTx[calls[p].id].lastError = calls[p].result.error
        /\ now > 0
        /\ queuedTx[calls[p].id].nextRetryAt = now + 4000

\* C9: an entry removed after a fatal failure, or after a retryable failure
\* with no retry left, is not in the queue afterwards.
C9_FailedEntryStaysRemoved ==
    \A id \in QueueIds : terminal[id] = "failed" => id \notin transactionQueue

\* processQueuedTransaction starts the dispatch of entry id in call p
DispatchStarts(p, id) ==
    /\ calls[p].pc \in {"idle", "done"}
    /\ calls'[p].pc = "probe"
    /\ calls'[p].kind = "process"
    /\ calls'[p].id = id

\* C10: an entry removed after its dispatch succeeded is never dispatched
\* again.
C10_SucceededNeverDispatchedAgain ==
    [][\A p \in Callers, id \in QueueIds :
          DispatchStarts(p, id) => terminal[id] # "succeeded"]_vars
\* the calls of processQueuedTransaction for entry id whose dispatch has
\* started and which have not yet continued at line 392
InDispatch(id) ==
    {q \in Callers : /\ calls[q].kind = "process"
                     /\ calls[q].id = id
                     /\ calls[q].pc \notin {"idle", "done"}}

\* the dispatches of entry id started so far, while the entry has never been
\* removed: each one that has returned failed retryably and raised
\* retryCount by one, the others are still under way
DispatchesOf(id) == queuedTx[id].retryCount + Cardinality(InDispatch(id))

\* C11: for a queued transfer whose every dispatch fails retryably, no more
\* than maxRetries + 1 dispatches are started in total.
C11_AtMostMaxRetriesPlusOneDispatches ==
    \A id \in QueueIds :
        (queuedTx[id].created /\ terminal[id] = "none")
            => DispatchesOf(id) <= queuedTx[id].maxRetries + 1

\* processQueuedTransaction is called for entry id in request p and finds
\* the entry in the queue
ProcessFindsEntry(p, id) ==
    /\ calls[p].pc \in {"idle", "done"}
    /\ calls'[p] # calls[p]
    /\ calls'[p].kind = "process"
    /\ calls'[p].id = id
    /\ id \in transactionQueue

\* C12: a retry requested through processQueuedTransaction dispatches at
\* once whenever the entry is present, whether or not the current time is
\* before the entry's nextRetryAt.
C12_ManualRetryIgnoresBackoff ==
    [][\A p \in Callers, id \in QueueIds :
          ProcessFindsEntry(p, id) =>
              /\ calls'[p].pc \in {"probe", "sent"}
              /\ calls'[p].pc = "sent" => ~KeyPlausible(queuedTx[id].encryptedPrivateKey)
              /\ UNCHANGED <<transactionQueue, queuedTx>>]_vars

\* the only request in flight is a retry probing its first endpoint for an
\* entry that was rescheduled and whose nextRetryAt is still ahead
C12_Witness ==
    \E p \in Callers :
        /\ calls[p].kind = "process"
        /\ calls[p].pc = "probe"
        /\ calls[p].rpc = 1
        /\ \A q \in Callers \ {p} : calls[q].pc = "idle"
        /\ calls[p].id \in transactionQueue
        /\ queuedTx[calls[p].id].retryCount >= 1
        /\ now < queuedTx[calls[p].id].nextRetryAt

\* C13: after a send that did not opt into queued dispatch and failed with
\* a retryable classification, the transfer is present in the retry queue.
C13_RetryableDirectFailureIsQueued ==
    \A p \in Callers :
        (/\ calls[p].kind = "send"
         /\ calls[p].pc = "done"
         /\ ~calls[p].result.success
         /\ calls[p].result.retryable)
            => transactionQueue # {}

----------------------------------------------------------------------------
(* Properties of webhook ingestion and status queries (checked under         *)
(* WebhookSpec)                                                              *)

\* a request is handled in this step
Handles(kind) == handled' = handled + 1 /\ request'.kind = kind

\* the webhook handled in this step passes the signature check of its
\* endpoint, or meets none
Accepted ==
    \/ ~env.production
    \/ ~env.signingKey
    \/ request'.body.endpoint = "trongrid"
    \/ request'.signature = "valid"

\* C14: ingesting the same payload a second time leaves the stored records
\* and the set of stored hashes as they were after the first time.
C14_IngestingTwiceIsIngestingOnce ==
    [][(/\ Handles("webhook")
        /\ request.kind = "webhook"
        /\ response.success
        /\ request' = request)
          => /\ transactionStatuses' = transactionStatuses
             /\ statusOrder' = statusOrder]_vars

\* C15: after a notification is handled, the record stored under each hash
\* it reports is exactly the record built from it, whatever was stored
\* before, and the records of the other hashes are as before.
C15_LastWriterWins ==
    [][(Handles("webhook") /\ Accepted) =>
          LET recs == RecordsOf(request'.body, now)
              last == {i \in 1..Len(recs) :
                         \A j \in (i + 1)..Len(recs) : recs[j].txHash # recs[i].txHash}
          IN /\ \A i \in last : transactionStatuses'[recs[i].txHash] = recs[i]
             /\ \A h \in Hashes :
                   (\A i \in 1..Len(recs) : recs[i].txHash # h)
                       => transactionStatuses'[h] = transactionStatuses[h]]_vars

\* a confirmed record with block data was replaced by a record of another
\* provider that is not confirmed and has no block data
C15_Witness ==
    /\ request.kind = "webhook"
    /\ response.success
    /\ replaced.present
    /\ replaced.status = "confirmed"
    /\ replaced.blockHash # Undefined
    /\ transactionStatuses[replaced.txHash].status \in {"pending", "failed"}
    /\ transactionStatuses[replaced.txHash].blockHash = Undefined
    /\ transactionStatuses[replaced.txHash].chain # replaced.chain

\* C16: a status lookup answers 404 with success = false when no record is
\* stored under the hash and 200 with the stored record otherwise, and leaves
\* the status store as it was.
C16_LookupTotalAndReadOnly ==
    [][Handles("status") =>
          LET h     == request'.txHash
              known == h \in Hashes /\ transactionStatuses[h].present
          IN /\ transactionStatuses' = transactionStatuses
             /\ statusOrder' = statusOrder
             /\ IF known
                THEN /\ response'.code = 200 /\ response'.success
                     /\ response'.data = <<h>>
                ELSE /\ response'.code = 404 /\ ~response'.success
                     /\ response'.data = <<>>]_vars

\* a lookup of a hash no notification referred to was answered 404 while
\* another hash was stored
C16_Witness ==
    /\ request.kind = "status"
    /\ request.txHash \notin Hashes
    /\ response.code = 404
    /\ \E h \in Hashes : transactionStatuses[h].present

\* the hashes whose stored records pass the filters of the list request
Matching ==
    {h \in Hashes : /\ transactionStatuses[h].present
                    /\ request.chain # "" =>
                          transactionStatuses[h].chain = ToUpperCase(request.chain)
                    /\ request.status # "" =>
                          transactionStatuses[h].status = request.status}

C18_UnknownEventDropped ==
    [][(/\ Handles("webhook")
        /\ Accepted
        /\ request'.body.endpoint \in {"alchemy", "cryptoapis", "quidax"}
        /\ request'.body.event = "other")
          => /\ transactionStatuses' = transactionStatuses
             /\ statusOrder' = statusOrder
             /\ response'.notified = 0
             /\ response'.code = 200
             /\ response'.success]_vars

\* a signed Quidax webhook of an unknown event type was answered with
\* success in production while a record was stored
C18_Witness ==
    /\ request.kind = "webhook"
    /\ request.body.endpoint = "quidax"
    /\ request.body.event = "other"
    /\ env.production /\ env.signingKey
    /\ request.signature = "valid"
    /\ response.success
    /\ response.notified = 0
    /\ \E h \in Hashes : transactionStatuses[h].present

\* C19: in production, with the signing keys set, a webhook whose signature
\* is missing or does not match is answered 401.
C19_UnsignedWebhookRejected ==
    (/\ env.production
     /\ env.signingKey
     /\ request.kind = "webhook"
     /\ request.signature # "valid")
        => response.code = 401

\* C20: a TronGrid webhook whose return code is SUCCESS stores the hash as
\* confirmed with one confirmation; an Alchemy dropped-transaction webhook
\* for a hash leaves its record failed with no confirmation, whatever was
\* stored before.
C20_TronConfirmedThenDropped ==
    [][(Handles("webhook") /\ Accepted) =>
          LET b == request'.body
          IN /\ (b.endpoint = "trongrid" /\ b.event = "SUCCESS") =>
                   /\ transactionStatuses'[b.hash].present
                   /\ transactionStatuses'[b.hash].status = "confirmed"
                   /\ transactionStatuses'[b.hash].confirmations = 1
             /\ (b.endpoint = "alchemy" /\ b.event = "DROPPED_TRANSACTION") =>
                   /\ transactionStatuses'[b.hash].present
                   /\ transactionStatuses'[b.hash].status = "failed"
                   /\ transactionStatuses'[b.hash].confirmations = 0]_vars

\* the dropped-transaction webhook replaced the confirmed record of a
\* TronGrid webhook
C20_Witness ==
    /\ request.kind = "webhook"
    /\ request.body.endpoint = "alchemy"
    /\ request.body.event = "DROPPED_TRANSACTION"
    /\ replaced.present
    /\ replaced.chain = "TRON"
    /\ replaced.status = "confirmed"
    /\ replaced.confirmations = 1
    /\ transactionStatuses[request.body.hash].status = "failed"
    /\ transactionStatuses[request.body.hash].confirmations = 0

\* the well-formed elements of the batch of the request being handled
WellFormed(b) == {i \in 1..Len(b.activity) : b.activity[i] # NullTx}

\* C21: when an ADDRESS_ACTIVITY batch is handled, every well-formed element
\* of the batch, before or after a malformed one, is upserted: the record
\* stored under its hash is the one of the last well-formed element naming
\* that hash.
C21_MalformedEventDoesNotAbortBatch ==
    [][(/\ Handles("webhook")
        /\ request'.body.event = "ADDRESS_ACTIVITY")
          => LET b == request'.body
             IN \A i \in WellFormed(b) :
                   (\A j \in WellFormed(b) : j > i => b.activity[j].hash # b.activity[i].hash)
                      => transactionStatuses'[b.activity[i].hash]
                            = ActivityRecord(b.activity[i], now)]_vars

----------------------------------------------------------------------------
(* Properties of the balance and fee queries (checked under QuerySpec)       *)

\* the queries that have called getProvider
Probing == {q \in Queriers : queries[q].probes # <<>>}

\* every probe of the call of q failed
AllProbesFailed(q) == \A i \in 1..Len(queries[q].probes) : ~queries[q].probes[i].ok

\* C22: in every call, getProvider probes the endpoints in configured order
\* starting with the first, each at most once; it probes nothing after a
\* success and returns the endpoint that succeeded; it fails with the
\* all-endpoints error exactly when all endpoints of the chain were probed
\* and failed.
C22_GetProviderFirstLiveEndpoint ==
    \A q \in Probing :
       LET c == queries[q]
       IN /\ \A i \in 1..Len(c.probes) : c.probes[i].endpoint = i
          /\ \A i \in 1..(Len(c.probes) - 1) : ~c.probes[i].ok
          /\ c.provider # 0 =>
                /\ c.probes[Len(c.probes)].ok
                /\ c.provider = c.probes[Len(c.probes)].endpoint
          /\ c.pc # "probe" =>
                /\ c.provider = 0 <=>
                      (Len(c.probes) = RpcCount(c.chain) /\ AllProbesFailed(q))
                /\ c.provider = 0 <=> c.returned.error = "All RPC endpoints failed"

\* one call got the second endpoint after the first failed, while another
\* call, started meanwhile, found every endpoint down
C22_Witness ==
    /\ queries["q1"].provider = 2
    /\ queries["q1"].pc # "done"
    /\ queries["q2"].returned.error = "All RPC endpoints failed"

----------------------------------------------------------------------------
(* Progress of the dispatcher (checked under TimedSpec)                      *)

\* the request of caller p is waiting for a provider
Awaiting(p) == calls[p].pc \notin {"idle", "done"}

\* C23: a request that waits for a provider (a liveness probe, a balance or
\* nonce lookup, a submission) is eventually answered, whether or not the
\* provider ever answers.
C23_ProviderCallsBounded ==
    \A p \in Callers : Awaiting(p) ~> ~Awaiting(p)

----------------------------------------------------------------------------
(* Properties of the balance checks and the fees (checked under FundsSpec)   *)

\* the provider answers the balance lookup the call of p waits for, and the
\* balance is below what the check of that lookup compares it with: the
\* amount (first lookup), the amount plus gasLimit * maxFeePerGas (second
\* lookup, native transfers only)
AnsweredShort(p) ==
    /\ calls[p].pc \in {"balance", "balance2"}
    /\ calls'[p] # calls[p]
    /\ calls'[p].balance # NoBalance
    /\ calls'[p].balance <
          (IF calls[p].pc = "balance" THEN calls[p].value
           ELSE calls[p].value + calls[p].gasLimit * calls[p].maxFeePerGas)

\* C24: a send whose amount (native or token) exceeds the balance the
\* provider answers, or whose amount plus gasLimit * maxFeePerGas exceeds the
\* native balance, returns at that point a failure that is not retryable:
\* the call goes on to no signing and no broadcast.
C24_InsufficientFundsRejected ==
    [][\A p \in Callers :
          AnsweredShort(p) =>
             /\ calls'[p].pc \in {"done", "sent"}
             /\ ~calls'[p].result.success
             /\ ~calls'[p].result.retryable]_vars

\* a native send passed the check of the amount and was rejected by the
\* check of amount plus gas, with a balance that covers the amount
C24_Witness ==
    /\ calls["r1"].pc = "done"
    /\ calls["r1"].result.error = "Insufficient balance for amount + gas"
    /\ calls["r1"].balance >= calls["r1"].value
    /\ calls["r1"].value > 0

\* the transaction of the call of p is about to be signed and submitted
Submitting(p) == calls[p].pc \in {"sign", "broadcast"}

\* the percentage of a fee level
TierPercent(feeLevel) ==
    CASE feeLevel = "economy"  -> 80
      [] feeLevel = "standard" -> 100
      [] feeLevel = "fast"     -> 150

\* C29: the maxFeePerGas and maxPriorityFeePerGas of a submitted transaction
\* are the fee-market values with the 20% buffer (integer division), then
\* scaled by the percentage of the fee level the caller chose, whether the
\* transfer is sent directly or dispatched through the retry queue.
C29_FeeTierAfterBuffer ==
    \A p \in Callers :
       (Submitting(p) /\ calls[p].feeData.maxFeePerGas # 0
                      /\ calls[p].feeData.maxPriorityFeePerGas # 0) =>
          /\ calls[p].maxFeePerGas =
                (((calls[p].feeData.maxFeePerGas * 120) \div 100)
                    * TierPercent(calls[p].requested)) \div 100
          /\ calls[p].maxPriorityFeePerGas =
                (((calls[p].feeData.maxPriorityFeePerGas * 120) \div 100)
                    * TierPercent(calls[p].requested)) \div 100

----------------------------------------------------------------------------
(* Properties of the retry queue when no endpoint is live (QueueSpec)        *)

\* getProvider fails in the call of p: the last endpoint fails its probe
AllEndpointsFail(p) ==
    /\ calls[p].pc = "probe"
    /\ calls'[p].pc \in {"done", "sent"}
    /\ calls'[p].result.error = "All RPC endpoints failed"

\* processQueuedTransaction finishes for an entry whose dispatch found no
\* live endpoint and which has retries left
FinishesUnavailable(p) ==
    /\ calls[p].pc = "sent"
    /\ calls'[p].pc = "done"
    /\ calls[p].result.error = "All RPC endpoints failed"
    /\ queuedTx[calls[p].id].retryCount < queuedTx[calls[p].id].maxRetries

\* C27: a send that finds every endpoint of its chain down returns a failure
\* with retryable = true, and a queued transfer dispatched then stays in the
\* queue while it has retries left.
C27_UnavailableIsRetryable ==
    [][\A p \in Callers :
          /\ AllEndpointsFail(p) =>
                (~calls'[p].result.success /\ calls'[p].result.retryable)
          /\ FinishesUnavailable(p) => calls[p].id \in transactionQueue']_vars

----------------------------------------------------------------------------
(* Properties of the three dispatchers (ChainsSpec)                         *)

\* the request of call c carries an amount that does not parse as a
\* positive number
InvalidAmount(c) == c.amount \in Amounts /\ ~AmountValid(c.amount)

\* call c awaits a provider call that builds, signs or submits its transfer
SubmitsTransfer(c) ==
    c.pc \in {"sign", "broadcast", "sendtrx", "tronsign", "sendraw", "transfer",
              "create", "utxobroadcast"}

\* C25: in each of the three dispatchers a send whose amount does not parse
\* as a positive number hands no transfer to a provider, and the result it
\* returns is a failure that is not retryable.
C25_InvalidAmountRejected ==
    [][\A p \in Callers :
          /\ InvalidAmount(calls'[p]) => ~SubmitsTransfer(calls'[p])
          /\ (InvalidAmount(calls[p]) /\ calls'[p].pc \in {"done", "sent"}) =>
                (~calls'[p].result.success /\ ~calls'[p].result.retryable)]_vars

\* the message indicates a nonce conflict, an underpriced replacement, a
\* timeout, a network-level disconnection or rate limiting
IndicatesTransient(message) ==
    message \in {"nonce too low", "replacement transaction underpriced", "timeout",
                 "network error", "connect ETIMEDOUT", "rate limit exceeded"}

\* C26: in each of the three dispatchers the result of a send that failed
\* with a provider's message is retryable exactly when the message indicates
\* a nonce conflict, an underpriced replacement, a timeout, a network-level
\* disconnection or rate limiting.
C26_RetryableClassification ==
    \A p \in Callers :
       (/\ calls[p].pc \in {"done", "sent"}
        /\ ~calls[p].result.success
        /\ calls[p].result.error \in ChainErrors \cup ProviderErrors) =>
          (calls[p].result.retryable <=> IndicatesTransient(calls[p].result.error))

----------------------------------------------------------------------------
(* Properties of fee estimation (QuerySpec)                                 *)

\* the fee estimate of q has reached the provider lookups of its chain type
\* and is answered in this step
EstimateAnswered(q) ==
    /\ queries[q].kind = "estimate"
    /\ queries[q].pc \in {"estgas", "feedata", "bandwidth", "utxofee"}
    /\ queries'[q].pc = "done"

\* C30: a fee estimate is answered with success = true whether the provider
\* answers the gas-limit and fee-market lookups or fails them, on
\* account-model, resource-model and UTXO chains alike.
C30_FeeEstimateNeverFails ==
    [][\A q \in Queriers : EstimateAnswered(q) => queries'[q].answer.success]_vars

----------------------------------------------------------------------------
(* Properties of the balance queries (QuerySpec)                            *)

\* the balance function called for q gave up and returned an error
BalanceFailed(q) ==
    /\ queries[q].pc = "done"
    /\ queries[q].kind = "balance"
    /\ queries[q].returned.error # ""

\* C31: a balance function that meets an unknown token or a provider
\* failure returns the balance '0' with an error message instead of
\* throwing, and the response of the balance endpoint carries that error.
C31_BalanceErrorPassedOn ==
    \A q \in Queriers :
       BalanceFailed(q) =>
          /\ queries[q].returned.balance = 0
          /\ queries[q].answer.error = queries[q].returned.error

----------------------------------------------------------------------------
(* Properties of the UTXO dispatcher (ChainsSpec)                           *)

\* the calls of sendUTXOTransaction, in flight or returned
UtxoCalls == {p \in Callers : calls[p].kind = "utxo"}

\* C32: a UTXO send runs construction+signing, then broadcast: the
\* broadcast is awaited only after construction answered with a transaction
\* id, success is returned only after the broadcast answered with a hash,
\* and a stage that fails is the last one run, its failure returned as a
\* classified result.
C32_UtxoStagesInOrder ==
    \A p \in UtxoCalls :
       LET c  == calls[p]
           st == c.stages
       IN /\ Len(st) <= 2
          /\ Len(st) >= 1 => st[1].stage = "create"
          /\ Len(st) = 2 => (st[1].outcome = "answered" /\ st[2].stage = "utxobroadcast")
          /\ c.pc = "utxobroadcast" => (Len(st) = 1 /\ st[1].outcome = "answered")
          /\ (c.pc = "done" /\ c.result.success) =>
                (Len(st) = 2 /\ st[2].outcome = "answered")
          /\ (Len(st) >= 1 /\ st[Len(st)].outcome # "answered") =>
                (c.pc = "done" /\ ~c.result.success /\ c.result.error # "")

\* construction answered with a transaction id and the broadcast was then
\* rejected by the provider
C32_Witness ==
    /\ calls["r1"].kind = "utxo"
    /\ calls["r1"].pc = "done"
    /\ Len(calls["r1"].stages) = 2
    /\ calls["r1"].stages[2].outcome = "rejected"
    /\ ~calls["r1"].result.success

----------------------------------------------------------------------------
(* Independence of the (chain, address) pairs (PairsSpec)                   *)

\* the (chain, address) pair call c sends for
PairOf(c) == <<ChainIdOf(c.chain), ToLowerCase(c.from)>>

\* the cache entries this step changes
EntriesChanged == {k \in CacheKeys : nonceCache'[k] # nonceCache[k]}

\* C33: a step changes no cache entry but that of the pair whose nonce it
\* allocates; a send that starts its allocation reads the entry of its own
\* pair; invalidating one pair leaves the entry of every other key as it
\* was.
C33_PairsIndependent ==
    [][/\ \A k \in EntriesChanged :
             \E p \in Callers : calls[p].pc = "txcount" /\ calls'[p].pc # "txcount"
                                /\ PairOf(calls[p]) = k
       /\ \A p \in Callers :
             (calls[p].pc # "txcount" /\ calls'[p].pc = "txcount") =>
                calls'[p].cached = nonceCache[PairOf(calls'[p])]
       /\ \A pr \in Pairs :
             \A other \in CacheKeys \ {<<ChainIdOf(pr[1]), ToLowerCase(WalletAddress(pr[2]))>>} :
                InvalidatedCache(nonceCache, ChainIdOf(pr[1]), WalletAddress(pr[2]))[other]
                   = nonceCache[other]]_vars

\* a send for 0xAA on BSC is waiting for its pending count while 0xAA on
\* ETHEREUM and 0xBB on BSC hold cached nonces
C33_Witness ==
    /\ calls["r2"].pc = "txcount"
    /\ PairOf(calls["r2"]) = <<56, "0xaa">>
    /\ nonceCache[<<1, "0xaa">>].present
    /\ nonceCache[<<56, "0xbb">>].present
    /\ ~nonceCache[<<56, "0xaa">>].present

----------------------------------------------------------------------------
(* Properties of the queue statistics (FundsSpec)                           *)

\* the entries queued by this step
FreshlyQueued ==
    {id \in QueueIds : ~queuedTx[id].created /\ id \in transactionQueue'}

\* C34: in every state reached, pending is the number of queued entries
\* with retryCount = 0, retrying the number with retryCount > 0, and the
\* two add up to the size of the queue; an entry just queued has
\* retryCount 0 and raises pending by one.
C34_QueueStatsPartition ==
    [][/\ GetQueueStats'.pending =
             Cardinality({id \in transactionQueue' : queuedTx'[id].retryCount = 0})
       /\ GetQueueStats'.retrying =
             Cardinality({id \in transactionQueue' : queuedTx'[id].retryCount > 0})
       /\ GetQueueStats'.pending + GetQueueStats'.retrying = Cardinality(transactionQueue')
       /\ \A id \in FreshlyQueued :
             /\ queuedTx'[id].retryCount = 0
             /\ GetQueueStats'.pending = GetQueueStats.pending + 1]_vars

\* the queue holds an entry that has been rescheduled
C34_Witness ==
    /\ GetQueueStats.retrying = 1
    /\ GetQueueStats.pending = 0
    /\ transactionQueue # {}

----------------------------------------------------------------------------
(* Properties of overlapping queue processing (QueueSpec)                    *)

\* the entries processQueuedTransaction has removed and that are not queued
Removed == {id \in QueueIds : terminal[id] # "none" /\ id \notin transactionQueue}

\* C35: an entry that processQueuedTransaction has removed from the queue,
\* after success or terminal failure, is not put back by any later step,
\* in particular not by a call for the same id that was in flight at the
\* removal and then fails retryably.
C35_RemovedEntryNeverReappears ==
    [][\A id \in Removed : id \notin transactionQueue']_vars

----------------------------------------------------------------------------
(* Properties of the nonces of failed sends (FundsSpec)                     *)

\* the send of p has a nonce and returns in this step before its
\* transaction is handed to the provider
ReturnsUnsent(p) ==
    /\ calls[p].pc \in {"feedata", "balance2", "sign"}
    /\ calls'[p].pc \in {"done", "sent"}

\* the nonce getNextNonce gave the send of p: where one request is served
\* at a time, the entry of the sender is the one that call stored, the
\* nonce it returned plus one (lines 129 and 134)
AllocatedNonce(p) == nonceCache[PairOf(calls[p])].nonce - 1

\* C36: when a send returns after getNextNonce gave it a nonce and before
\* the broadcast, the next allocation for the same sender, made within the
\* TTL while the provider still reports the same pending count, returns
\* that nonce again.
C36_UnsentNonceGivenBack ==
    [][\A p \in FundsCallers :
          ReturnsUnsent(p) =>
             \A a \in FundsPendingCounts :
                NextNonce(nonceCache'[PairOf(calls[p])], now', a) = AllocatedNonce(p)]_vars

----------------------------------------------------------------------------
(* Properties of the retry counter (QueueSpec)                              *)

\* C37: after every step, overlapping processQueuedTransaction calls on the
\* same id included, every entry created has 0 <= retryCount <= maxRetries,
\* and the retryCount of an entry that stays in the queue has not gone
\* down.
C37_RetryCountBounded ==
    [][\A id \in QueueIds :
          /\ queuedTx'[id].created =>
                /\ 0 <= queuedTx'[id].retryCount
                /\ queuedTx'[id].retryCount <= queuedTx'[id].maxRetries
          /\ (id \in transactionQueue /\ id \in transactionQueue') =>
                queuedTx'[id].retryCount >= queuedTx[id].retryCount]_vars

\* an entry has used up its retries while two calls for it overlapped: it
\* is queued with retryCount = maxRetries and another call is in flight
C37_Witness ==
    /\ 1 \in transactionQueue
    /\ queuedTx[1].retryCount = queuedTx[1].maxRetries
    /\ calls["r1"].kind = "process" /\ calls["r1"].pc = "done"
    /\ calls["r2"].kind = "process" /\ calls["r2"].pc = "sent"
    /\ calls["r2"].result.retryable

----------------------------------------------------------------------------
(* Properties of the gas limit (FundsSpec)                                  *)

\* the gas limit before the safety multiplier: the provider's estimate g,
\* or the fixed default where the estimate failed (g = 0)
BaseGasLimit(hasData, g) ==
    IF g # 0 THEN g ELSE IF hasData THEN 100000 ELSE 21000

\* call c has its gas limit
HasGasLimit(c) == c.pc \in {"feedata", "balance2", "sign", "broadcast"}

\* C38: the gas limit of a transaction is the provider's estimate, or the
\* default of 100000 (with data) or 21000 (plain transfer) where the
\* estimate failed, multiplied in both cases by the safety multiplier of
\* the chain.
C38_GasLimitAlwaysMultiplied ==
    \A p \in Callers :
       HasGasLimit(calls[p]) =>
          \E g \in GasEstimates :
             calls[p].gasLimit =
                (BaseGasLimit(IsToken(calls[p].chain, calls[p].symbol), g)
                    * GasMultiplierPercent(calls[p].chain)) \div 100

----------------------------------------------------------------------------
(* Properties of processing an id that is not queued (QueueSpec)            *)

\* processQueuedTransaction is called in request p for an id that is not
\* in the queue
ProcessMissing(p, id) ==
    /\ calls[p].pc \in {"idle", "done"}
    /\ calls'[p] # calls[p]
    /\ calls'[p].kind = "process"
    /\ calls'[p].id = id
    /\ id \notin transactionQueue
    /\ nextQueueId' = nextQueueId

\* C39: processQueuedTransaction for an id that is not in the queue returns
\* at once a failure with retryable = false: no dispatch is started, no
\* provider call is awaited, and the queue, its entries and the nonce cache
\* are left as they were.
C39_MissingIdIsFatalNoEffect ==
    [][\A p \in Callers, id \in QueueIds :
          ProcessMissing(p, id) =>
             /\ calls'[p].pc = "done"
             /\ ~calls'[p].result.success
             /\ ~calls'[p].result.retryable
             /\ UNCHANGED <<transactionQueue, queuedTx, nonceCache>>]_vars

\* a retry was asked for an entry that had been removed after its terminal
\* failure, and was answered that the entry is not in the queue
C39_Witness ==
    /\ terminal[1] = "failed"
    /\ 1 \notin transactionQueue
    /\ calls["r1"].pc = "done"
    /\ calls["r1"].kind = "process"
    /\ calls["r1"].result.error = "Transaction not found in queue"

----------------------------------------------------------------------------
(* Properties of the resource-model dispatcher (ChainsSpec)                 *)

\* the calls of sendTronTransaction, in flight or returned
TronCalls == {p \in Callers : calls[p].kind = "tron"}

\* 15 TRX, in sun
MinReserveSun == 15 * 1000000

\* C40: a TRC20 send whose sender holds less than 15 TRX is rejected with
\* retryable = false when the TRX balance is answered: it reaches neither
\* the token contract nor the transfer.  A native TRX send goes on to the
\* transfer whenever the balance covers the amount, with no reserve, and
\* is rejected for its balance only when the balance is below the amount.
C40_TokenSendNeedsTrxReserve ==
    \A p \in TronCalls :
       LET c == calls[p]
       IN /\ c.pc \in {"contract", "tokenbalance", "transfer"} =>
                c.balance >= MinReserveSun
          /\ (c.pc = "done" /\ c.result.error = "Insufficient TRX for network fees") =>
                (c.balance < MinReserveSun /\ ~c.result.success /\ ~c.result.retryable)
          /\ c.pc \in {"sendtrx", "tronsign", "sendraw"} => c.balance >= c.value
          /\ (c.pc = "done" /\ c.result.error = "Insufficient TRX balance") =>
                (c.balance < c.value /\ ~c.result.success /\ ~c.result.retryable)

\* a token send was rejected for a sender holding 1.5 TRX
C40_Witness ==
    /\ calls["r1"].kind = "tron"
    /\ calls["r1"].pc = "done"
    /\ calls["r1"].result.error = "Insufficient TRX for network fees"
    /\ calls["r1"].balance > 0
    /\ IsTrc20(calls["r1"].symbol)

====
